---------------------------- MODULE Spec2Model ----------------------------
(***************************************************************************)
(* A model of the quilt-sdk client library: the property-name normalizer   *)
(* (utils/normalize.ts), the default tables (utils/defaults.ts), the       *)
(* request builders of the Quilt class (wrapper.ts) and the HTTP transport *)
(* (http-client.ts).                                                       *)
(*                                                                         *)
(* JavaScript values are modelled as records of one shape                  *)
(*    [t, e, s, b]                                                         *)
(* where t is the kind: "map" (a plain object, e is the sequence of its    *)
(* entries [k, v] in insertion order), "seq" (an array, e is the sequence  *)
(* of its items), "str" (an atomic string, s), "text" (a string whose      *)
(* characters matter, b is the sequence of its byte values), "bool" (s is  *)
(* "true" or "false"), "num" (b is <<n>>), "null" and "undefined".         *)
(***************************************************************************)
EXTENDS Integers, Sequences, FiniteSets, TLC

VARIABLES
    input,      \* normalizer run: the payload handed to normalize
    once,       \* normalizer run: normalize(input)
    twice,      \* normalizer run: normalize(normalize(input))
    phase,      \* normalizer run: "input", "once", "twice"
    pc,         \* client: "idle", "lookup", "primary", "done"
    op,         \* client: the operation the caller invoked
    params,     \* client: the params object the caller passed
    normalized, \* client: the operation's local `normalized`
    requests,   \* client: the requests the operation has handed to fetch
    responses,  \* client: the responses the transport has delivered
    outcome,    \* client: what the operation returned or threw
    store,      \* client: the objects an operation can reach, as they are now
    options,    \* transport: the options the Quilt was constructed with
    token,      \* transport: HttpClient.token
    hpc,        \* transport: "idle", "fetching", "reading", "settled"
    outbound,   \* transport: the request handed to fetch
    timer,      \* transport: the abort timer: "none", "armed", "cleared"
    elapsed,    \* transport: the timeout has elapsed since the call began
    delivered,  \* transport: what the network delivered to the call
    settled,    \* transport: what HttpClient.request returned or threw
    calls,      \* concurrent callers: the state of each caller's operation
    wire,       \* concurrent callers: the calls made and the requests sent, in order
    given,      \* Quilt.connect: the options the caller passed, or undefined
    env,        \* Quilt.connect: process.env
    file,       \* Quilt.connect: the file ~/.quilt/config.json
    cpc,        \* Quilt.connect: "idle", "probing", "done"
    client,     \* Quilt.connect: this.options of the Quilt it constructed
    connected,  \* Quilt.connect: what the call returned or threw
    argv,       \* CLI: process.argv.slice(2)
    cliPc,      \* CLI: "start", "connecting", "calling", "exited"
    cmdName,    \* CLI: the command main dispatched to
    stderr,     \* CLI: the lines written to standard error
    exitStatus, \* CLI: the status the process exited with
    failure     \* CLI: the failure the run met, "none" if it met none

vars == <<input, once, twice, phase, pc, op, params, normalized,
          requests, responses, outcome, store, options, token, hpc, outbound,
          timer, elapsed, delivered, settled, calls, wire,
          given, env, file, cpc, client, connected,
          argv, cliPc, cmdName, stderr, exitStatus, failure>>

normVars == <<input, once, twice, phase>>
clientVars == <<pc, op, params, normalized, requests, responses, outcome, store>>
httpVars == <<options, token, hpc, outbound, timer, elapsed, delivered, settled>>
callVars == <<calls, wire>>
connVars == <<given, env, file, cpc, client, connected>>
cliVars == <<argv, cliPc, cmdName, stderr, exitStatus, failure>>

---------------------------------------------------------------------------
(* JavaScript values *)

Str(x) == [t |-> "str", e |-> <<>>, s |-> x, b |-> <<>>]
Text(bytes) == [t |-> "text", e |-> <<>>, s |-> "", b |-> bytes]
Bool(x) == [t |-> "bool", e |-> <<>>, s |-> IF x THEN "true" ELSE "false", b |-> <<>>]
Num(n) == [t |-> "num", e |-> <<>>, s |-> "", b |-> <<n>>]
Undefined == [t |-> "undefined", e |-> <<>>, s |-> "", b |-> <<>>]
Null == [t |-> "null", e |-> <<>>, s |-> "", b |-> <<>>]
Arr(items) == [t |-> "seq", e |-> items, s |-> "", b |-> <<>>]
Obj(entries) == [t |-> "map", e |-> entries, s |-> "", b |-> <<>>]
Entry(key, val) == [k |-> key, v |-> val]

\* JavaScript truthiness (the `!x`, `x || y` and `if (x)` tests of the code)
Truthy(v) ==
    CASE v.t = "undefined" -> FALSE
      [] v.t = "null" -> FALSE
      [] v.t = "bool" -> v.s = "true"
      [] v.t = "str" -> v.s # ""
      [] v.t = "text" -> v.b # <<>>
      [] v.t = "num" -> v.b[1] # 0
      [] OTHER -> TRUE

Keys(obj) == {obj.e[i].k : i \in 1..Len(obj.e)}

\* obj[key]
Get(obj, key) ==
    IF key \in Keys(obj)
    THEN LET i == CHOOSE j \in 1..Len(obj.e) : obj.e[j].k = key IN obj.e[i].v
    ELSE Undefined

\* obj[key] = val : an existing key keeps its position, a new key is appended
Put(obj, key, val) ==
    IF key \in Keys(obj)
    THEN Obj([i \in 1..Len(obj.e) |->
                IF obj.e[i].k = key THEN Entry(key, val) ELSE obj.e[i]])
    ELSE Obj(Append(obj.e, Entry(key, val)))

RECURSIVE PutAll(_, _, _)
PutAll(obj, entries, i) ==
    IF i > Len(entries) THEN obj
    ELSE PutAll(Put(obj, entries[i].k, entries[i].v), entries, i + 1)

\* { ...a, ...b }
Spread(a, b) == PutAll(PutAll(Obj(<<>>), a.e, 1), b.e, 1)

---------------------------------------------------------------------------
(* utils/normalize.ts *)

\* The alias table, as the set of its rows <<alias, canonical>>
AliasRows == {
    <<"image", "image_path">>, <<"cmd", "command">>, <<"env", "environment">>,
    <<"workdir", "working_directory">>, <<"memory", "memory_limit_mb">>,
    <<"cpu", "cpu_limit_percent">>,
    <<"id", "container_id">>,
    <<"src", "source">>, <<"dst", "target">>, <<"dest", "target">>,
    <<"ro", "readonly">>,
    <<"ip", "ip_address">>, <<"bridge", "bridge_interface">>,
    <<"timeout", "timeout_seconds">>, <<"capture", "capture_output">>,
    <<"include", "include_system">>,
    <<"cmdB64", "cmd_b64">>, <<"partsB64", "parts_b64">>,
    <<"imagePath", "image_path">>, <<"workingDirectory", "working_directory">>,
    <<"setupCommands", "setup_commands">>, <<"memoryLimitMb", "memory_limit_mb">>,
    <<"cpuLimitPercent", "cpu_limit_percent">>,
    <<"enablePidNamespace", "enable_pid_namespace">>,
    <<"enableMountNamespace", "enable_mount_namespace">>,
    <<"enableUtsNamespace", "enable_uts_namespace">>,
    <<"enableIpcNamespace", "enable_ipc_namespace">>,
    <<"enableNetworkNamespace", "enable_network_namespace">>,
    <<"asyncMode", "async_mode">>, <<"containerId", "container_id">>,
    <<"containerName", "container_name">>, <<"timeoutSeconds", "timeout_seconds">>,
    <<"captureOutput", "capture_output">>, <<"copyScript", "copy_script">>,
    <<"exitCode", "exit_code">>, <<"errorMessage", "error_message">>,
    <<"mountPoint", "mount_point">>, <<"createdAt", "created_at">>,
    <<"startedAt", "started_at">>, <<"exitedAt", "exited_at">>,
    <<"ipAddress", "ip_address">>, <<"bridgeInterface", "bridge_interface">>,
    <<"vethHost", "veth_host">>, <<"vethContainer", "veth_container">>,
    <<"setupCompleted", "setup_completed">>, <<"includeSystem", "include_system">>,
    <<"startTime", "start_time">>, <<"endTime", "end_time">>,
    <<"intervalSeconds", "interval_seconds">>, <<"taskId", "task_id">>,
    <<"resourceType", "resource_type">>, <<"resourcePath", "resource_path">>,
    <<"completedAt", "completed_at">>, <<"memoryUsageBytes", "memory_usage_bytes">>,
    <<"rootfsPath", "rootfs_path">>, <<"uptimeSeconds", "uptime_seconds">>,
    <<"containersRunning", "containers_running">>,
    <<"containersTotal", "containers_total">>,
    <<"containersStopped", "containers_stopped">>,
    <<"memoryUsedMb", "memory_used_mb">>, <<"memoryTotalMb", "memory_total_mb">>,
    <<"cpuCount", "cpu_count">>, <<"loadAverage", "load_average">>,
    <<"containerMetrics", "container_metrics">>,
    <<"systemMetrics", "system_metrics">>, <<"networkConfig", "network_config">>,
    <<"eventType", "event_type">>, <<"eventTypes", "event_types">>,
    <<"containerIds", "container_ids">>, <<"allocationTime", "allocation_time">>,
    <<"cleanedResources", "cleaned_resources">>,
    <<"fn", "function_id">>, <<"fnId", "function_id">>,
    <<"fnName", "function_name">>, <<"code", "code_source">>,
    <<"pool", "pool_size">>, <<"drain", "drain_timeout_seconds">>,
    <<"async", "async_mode">>,
    <<"functionId", "function_id">>, <<"functionName", "function_name">>,
    <<"codeSource", "code_source">>, <<"codeHash", "code_hash">>,
    <<"poolSize", "pool_size">>, <<"drainTimeoutSeconds", "drain_timeout_seconds">>,
    <<"invocationId", "invocation_id">>, <<"coldStart", "cold_start">>,
    <<"inputPayload", "input_payload">>, <<"outputPayload", "output_payload">>,
    <<"versionId", "version_id">>, <<"targetVersion", "target_version">>,
    <<"currentVersion", "current_version">>, <<"lastInvokedAt", "last_invoked_at">>,
    <<"invocationCount", "invocation_count">>, <<"errorCount", "error_count">>,
    <<"avgDurationMs", "avg_duration_ms">>, <<"durationMs", "duration_ms">>,
    <<"maxInvocations", "max_invocations">>, <<"lastUsedAt", "last_used_at">>,
    <<"totalContainers", "total_containers">>,
    <<"readyContainers", "ready_containers">>,
    <<"busyContainers", "busy_containers">>,
    <<"totalFunctions", "total_functions">>,
    <<"functionsWithPools", "functions_with_pools">>,
    <<"avgPoolSize", "avg_pool_size">>, <<"totalInvocations", "total_invocations">>,
    <<"coldStarts", "cold_starts">>, <<"warmHits", "warm_hits">>,
    <<"coldStartRate", "cold_start_rate">>,
    <<"containersWarmed", "containers_warmed">>,
    <<"containersDrained", "containers_drained">>,
    <<"totalCount", "total_count">>, <<"readyCount", "ready_count">>,
    <<"busyCount", "busy_count">>, <<"tenantId", "tenant_id">>,
    <<"updatedAt", "updated_at">> }

\* The source keys of the alias table
AliasKeys == {r[1] : r \in AliasRows}

\* PROPERTY_MAP as a function of its own keys
PROPERTY_MAP == [key \in AliasKeys |-> (CHOOSE r \in AliasRows : r[1] = key)[2]]

\* PROPERTY_MAP is an object literal, so PROPERTY_MAP[key] also finds the
\* properties it inherits from Object.prototype; used as a property name the
\* inherited function is converted to its source text.
InheritedKeys == {"constructor"}
InheritedText == "function Object() { [native code] }"

\* A chained alias row: `id` written to point at the camelCase spelling
canonicalKeyChained(key) ==
    IF key = "id" THEN "containerId"
    ELSE IF key \in AliasKeys THEN PROPERTY_MAP[key]
    ELSE IF key \in InheritedKeys THEN InheritedText
    ELSE key

\* const canonicalKey = PROPERTY_MAP[key] || key
canonicalKey(key) ==
    IF key \in AliasKeys THEN PROPERTY_MAP[key]
    ELSE IF key \in InheritedKeys THEN InheritedText
    ELSE key

isPlainObject(value) == value.t = "map"

RECURSIVE normalizeObject(_)
RECURSIVE normalizeEntries(_, _, _)

\* the array branch written with filter instead of map: items that are not
\* plain objects are dropped
normalizeValueFilter(value) ==
    IF isPlainObject(value) THEN normalizeObject(value)
    ELSE IF value.t = "seq"
    THEN LET objects == SelectSeq(value.e, isPlainObject) IN
         Arr([i \in 1..Len(objects) |-> normalizeObject(objects[i])])
    ELSE value

\* the value stored under the canonical key by one iteration of the loop
normalizeValue(value) ==
    IF isPlainObject(value) THEN normalizeObject(value)
    ELSE IF value.t = "seq"
    THEN Arr([i \in 1..Len(value.e) |->
                IF isPlainObject(value.e[i]) THEN normalizeObject(value.e[i])
                ELSE value.e[i]])
    ELSE value

\* the loop over Object.entries(obj), from entry i on
normalizeEntries(entries, i, acc) ==
    IF i > Len(entries) THEN acc
    ELSE normalizeEntries(entries, i + 1,
            Put(acc, canonicalKey(entries[i].k), normalizeValue(entries[i].v)))

\* the loop taking the entries from the last to the first
normalizeObjectBackwards(obj) ==
    normalizeEntries([i \in 1..Len(obj.e) |-> obj.e[Len(obj.e) + 1 - i]], 1, Obj(<<>>))

normalizeObject(obj) == normalizeEntries(obj.e, 1, Obj(<<>>))

normalize(obj) == normalizeObject(obj)


---------------------------------------------------------------------------
(* utils/defaults.ts *)

CONTAINER_DEFAULTS == Obj(<<
    Entry("image_path", Str("/var/lib/quilt/images/default.tar")),
    Entry("async_mode", Bool(TRUE)),
    Entry("enable_pid_namespace", Bool(TRUE)),
    Entry("enable_mount_namespace", Bool(TRUE)),
    Entry("enable_uts_namespace", Bool(TRUE)),
    Entry("enable_ipc_namespace", Bool(TRUE)),
    Entry("enable_network_namespace", Bool(TRUE)),
    Entry("setup_commands", Arr(<<>>)),
    Entry("environment", Obj(<<>>)),
    Entry("working_directory", Str("")) >>)

EXEC_DEFAULTS == Obj(<<
    Entry("capture_output", Bool(TRUE)),
    Entry("working_directory", Str("/")) >>)

STOP_DEFAULTS == Obj(<< Entry("timeout_seconds", Num(10)) >>)

VOLUME_DEFAULTS == Obj(<< Entry("driver", Str("local")) >>)

METRICS_DEFAULTS == Obj(<< Entry("include_system", Bool(TRUE)) >>)

---------------------------------------------------------------------------
(* Buffer.from(script).toString('base64') *)

\* the character code of the i-th letter of the base64 alphabet
B64Char(i) ==
    IF i < 26 THEN 65 + i
    ELSE IF i < 52 THEN 97 + (i - 26)
    ELSE IF i < 62 THEN 48 + (i - 52)
    ELSE IF i = 62 THEN 43
    ELSE 47

B64Pad == 61

RECURSIVE Base64From(_, _)
Base64From(bytes, i) ==
    LET n == Len(bytes) - i + 1 IN
    IF n <= 0 THEN <<>>
    ELSE IF n = 1 THEN
        << B64Char(bytes[i] \div 4), B64Char((bytes[i] % 4) * 16), B64Pad, B64Pad >>
    ELSE IF n = 2 THEN
        << B64Char(bytes[i] \div 4),
           B64Char((bytes[i] % 4) * 16 + bytes[i + 1] \div 16),
           B64Char((bytes[i + 1] % 16) * 4), B64Pad >>
    ELSE
        << B64Char(bytes[i] \div 4),
           B64Char((bytes[i] % 4) * 16 + bytes[i + 1] \div 16),
           B64Char((bytes[i + 1] % 16) * 4 + bytes[i + 2] \div 64),
           B64Char(bytes[i + 2] % 64) >> \o Base64From(bytes, i + 3)

\* a script is a "text" value; its base64 encoding is a "text" value too
Base64Raw(script) == Text(script.b)
Base64(script) == Text(Base64From(script.b, 1))

---------------------------------------------------------------------------
(* wrapper.ts: the request builders *)

\* a path is its route template and the value interpolated into it
Path(route, id) == [route |-> route, id |-> id]
Query(name, val) == [name |-> name, val |-> val]

Request(method, path, query, body) ==
    [method |-> method, path |-> path, query |-> query, body |-> body]

Threw(kind, msg, arg) == [threw |-> TRUE, kind |-> kind, msg |-> msg, arg |-> arg]
Built(val) == [threw |-> FALSE, val |-> val]

\* create posting withDefaults instead of normalized
createRequestUnnormalized(p) ==
    LET copy == Spread(Obj(<<>>), p)
        withAsync == IF Get(copy, "async_mode").t = "undefined"
                     THEN Put(copy, "async_mode", Bool(TRUE)) ELSE copy
        withDefaults == IF ~Truthy(Get(withAsync, "image")) /\ ~Truthy(Get(withAsync, "image_path"))
                        THEN Put(withAsync, "image_path", Get(CONTAINER_DEFAULTS, "image_path"))
                        ELSE withAsync
    IN Request("POST", Path("/containers", Undefined), <<>>, withDefaults)

\* Quilt.create, up to the call of this.http.post
createRequest(p) ==
    LET copy == Spread(Obj(<<>>), p)
        withAsync == IF Get(copy, "async_mode").t = "undefined"
                     THEN Put(copy, "async_mode", Bool(TRUE)) ELSE copy
        withDefaults == IF ~Truthy(Get(withAsync, "image")) /\ ~Truthy(Get(withAsync, "image_path"))
                        THEN Put(withAsync, "image_path", Get(CONTAINER_DEFAULTS, "image_path"))
                        ELSE withAsync
    IN Request("POST", Path("/containers", Undefined), <<>>, normalize(withDefaults))

\* Quilt.createVolume, up to the call of this.http.post
createVolumeRequest(p) ==
    Request("POST", Path("/volumes", Undefined), <<>>, normalize(Spread(VOLUME_DEFAULTS, p)))

\* Quilt.getMetrics, up to the call of this.http.get
getMetricsRequest(p) ==
    LET n == normalize(Spread(METRICS_DEFAULTS, p))
        path == IF Truthy(Get(n, "container_id"))
                THEN Path("/containers/${container_id}/metrics", Get(n, "container_id"))
                ELSE Path("/system/metrics", Undefined)
        q1 == IF Truthy(Get(n, "start_time"))
              THEN << Query("start_time", Get(n, "start_time")) >> ELSE <<>>
        q2 == IF Truthy(Get(n, "end_time"))
              THEN << Query("end_time", Get(n, "end_time")) >> ELSE <<>>
        q3 == IF Get(n, "include_system").t # "undefined"
              THEN << Query("include_system", Get(n, "include_system")) >> ELSE <<>>
    IN Request("GET", path, q1 \o q2 \o q3, Undefined)

\* Quilt.inspectVolume, up to the call of this.http.get
inspectVolumeRequest(p) ==
    Request("GET", Path("/volumes/${normalized.name}/inspect", Get(normalize(p), "name")),
            <<>>, Undefined)

\* setContainerNetwork sending the caller's network configuration as it is
setContainerNetworkRequestWhole(p) ==
    LET n == normalize(p) IN
    Request("PUT", Path("/containers/${normalized.container_id}/network",
                        Get(n, "container_id")), <<>>, Get(n, "network_config"))

\* Quilt.setContainerNetwork, up to the call of this.http.put
setContainerNetworkRequest(p) ==
    LET n == normalize(p)
        config == Get(n, "network_config")
        body == Obj(<< Entry("ip_address", Get(config, "ip_address")),
                       Entry("gateway", IF Truthy(Get(config, "setup_completed"))
                                        THEN Null ELSE Undefined) >>)
    IN Request("PUT", Path("/containers/${normalized.container_id}/network",
                           Get(n, "container_id")), <<>>, body)

\* a || b
Or(a, b) == IF Truthy(a) THEN a ELSE b

\* Quilt.forceCleanupContainer, up to the call of this.http.post
forceCleanupContainerRequest(p) ==
    LET n == normalize(p)
        body == Obj(<< Entry("confirm", Or(Get(n, "confirm"), Bool(TRUE))),
                       Entry("remove_volumes", Or(Get(n, "remove_volumes"), Bool(FALSE))) >>)
    IN Request("POST", Path("/containers/${normalized.container_id}/cleanup/force",
                            Get(n, "container_id")), <<>>, body)

\* Quilt.comprehensiveNetworkCleanup, up to the call of this.http.post
comprehensiveNetworkCleanupRequest(p) ==
    LET n == normalize(p) IN
    Request("POST", Path("/admin/network/cleanup", Undefined), <<>>,
            Obj(<< Entry("dry_run", Or(Get(n, "dry_run"), Bool(FALSE))) >>))

\* the operations that take a container by id or by name
LifecycleOps == {"start", "stop", "kill", "remove", "status", "logs", "exec"}
DirectOps == {"create", "createVolume", "getMetrics", "inspectVolume",
              "setContainerNetwork", "forceCleanupContainer",
              "comprehensiveNetworkCleanup"}
Ops == LifecycleOps \cup DirectOps

\* the first two statements of a lifecycle operation: defaults and normalize
normalizedParams(o, p) ==
    CASE o = "stop" -> normalize(Spread(STOP_DEFAULTS, p))
      [] o = "exec" -> normalize(Spread(EXEC_DEFAULTS, p))
      [] OTHER -> normalize(p)

\* exec sending the script as it is, without encoding it
execCommandBodyRaw(n) ==
    IF Truthy(Get(n, "script")) THEN Built(Obj(<<Entry("cmd_b64", Base64Raw(Get(n, "script")))>>))
    ELSE IF Get(n, "command").t \in {"str", "text"} THEN Built(Get(n, "command"))
    ELSE IF Get(n, "command").t = "seq" THEN Built(Get(n, "command"))
    ELSE IF Truthy(Get(n, "command")) /\ Get(n, "command").t = "map"
    THEN Built(Get(n, "command"))
    ELSE Threw("Error", "exec requires command or script parameter", Undefined)

\* Quilt.exec: the command body, or the validation error
execCommandBody(n) ==
    IF Truthy(Get(n, "script")) THEN Built(Obj(<<Entry("cmd_b64", Base64(Get(n, "script")))>>))
    ELSE IF Get(n, "command").t \in {"str", "text"} THEN Built(Get(n, "command"))
    ELSE IF Get(n, "command").t = "seq" THEN Built(Get(n, "command"))
    ELSE IF Truthy(Get(n, "command")) /\ Get(n, "command").t = "map"
    THEN Built(Get(n, "command"))
    ELSE Threw("Error", "exec requires command or script parameter", Undefined)

\* a lifecycle operation from the point where containerId is known
\* up to the call of this.http
primaryRequest(o, n, containerId) ==
    CASE o = "start" -> Built(Request("POST", Path("/containers/${containerId}/start", containerId), <<>>, Undefined))
      [] o = "stop" -> Built(Request("POST", Path("/containers/${containerId}/stop", containerId), <<>>, Undefined))
      [] o = "kill" -> Built(Request("POST", Path("/containers/${containerId}/kill", containerId), <<>>, Undefined))
      [] o = "remove" -> Built(Request("DELETE", Path("/containers/${containerId}", containerId), <<>>, Undefined))
      [] o = "status" -> Built(Request("GET", Path("/containers/${containerId}", containerId), <<>>, Undefined))
      [] o = "logs" -> Built(Request("GET", Path("/containers/${containerId}/logs", containerId), <<>>, Undefined))
      [] o = "exec" ->
            LET c == execCommandBody(n) IN
            IF c.threw THEN c
            ELSE Built(Request("POST", Path("/containers/${containerId}/exec", containerId), <<>>,
                    Obj(<< Entry("command", c.val),
                           Entry("workdir", Get(n, "working_directory")),
                           Entry("capture_output", Get(n, "capture_output")) >>)))

\* Quilt.getContainerByName, up to the call of this.http.get
getContainerByNameRequest(p) ==
    Request("GET", Path("/containers/by-name/${normalized.name}", Get(normalize(p), "name")), <<>>, Undefined)

\* Quilt.resolveContainerId, up to the call of getContainerByName
resolveContainerIdRequest(name) ==
    IF ~Truthy(name)
    THEN Threw("Error", "Either container_id or container_name must be provided", Undefined)
    ELSE Built(getContainerByNameRequest(Obj(<<Entry("name", name)>>)))

---------------------------------------------------------------------------
(* The normalizer run: a payload is drawn, normalized, and normalized again *)

MaxEntries == 2     \* entries of an innermost mapping
MaxDepth == 3       \* mappings and sequences wrapped around it

PayloadKeys == {"id", "containerId", "container_id", "label", "constructor"}
WrapKeys == {"env", "items"}
Scalars == {Str("a"), Str("b")}

EntrySet == {Entry(k, v) : k \in PayloadKeys, v \in Scalars}

\* mappings of up to MaxEntries scalar entries with distinct keys, in every order
FlatObjects ==
    UNION {{Obj(es) : es \in {f \in [1..n -> EntrySet] :
                \A i, j \in 1..n : f[i].k = f[j].k => i = j}} : n \in 0..MaxEntries}

\* the values of prev, and each of them as the value of a one-entry mapping
\* and as the second item of a sequence
Wrap(prev) ==
    prev \cup {Obj(<<Entry(k, w)>>) : k \in WrapKeys, w \in prev}
         \cup {Arr(<<Str("a"), w>>) : w \in prev}

RECURSIVE Nest(_)
Nest(d) == IF d = 0 THEN Scalars \cup FlatObjects ELSE Wrap(Nest(d - 1))

\* normalize takes an object
Payloads(d) == {w \in Nest(d) : w.t = "map"}

NoOutcome == [kind |-> "none", msg |-> "", arg |-> Undefined, method |-> "",
              status |-> -1, details |-> Undefined, value |-> Undefined]

\* this.options of a Quilt constructed without options
DefaultClient ==
    Obj(<< Entry("apiBaseUrl", Str("http://localhost:8080")),
           Entry("token", Undefined),
           Entry("timeout", Num(30000)) >>)

\* the default table an operation spreads its params over, by name
DefaultTables ==
    [create |-> CONTAINER_DEFAULTS, exec |-> EXEC_DEFAULTS, stop |-> STOP_DEFAULTS,
     createVolume |-> VOLUME_DEFAULTS, getMetrics |-> METRICS_DEFAULTS]

\* the objects that outlive a call: the caller's params object, the default
\* tables, the alias table and the client's configuration
Pristine ==
    [passed |-> Undefined, defaults |-> DefaultTables, aliases |-> PROPERTY_MAP,
     config |-> DefaultClient]

RECURSIVE inputAfter(_)

\* normalizeObject rewriting the keys of its argument in place
inputAfterInPlace(v) == IF isPlainObject(v) THEN normalizeObject(v) ELSE v

\* what an argument of normalizeValue holds once normalizeValue has
\* returned: normalizeObject writes to a fresh `result`, value.map builds a
\* fresh array, anything else is returned as it is
inputAfter(v) ==
    IF v.t = "seq" THEN Arr([i \in 1..Len(v.e) |-> inputAfter(v.e[i])])
    ELSE IF isPlainObject(v)
    THEN Obj([i \in 1..Len(v.e) |-> Entry(v.e[i].k, inputAfter(v.e[i].v))])
    ELSE v

\* what an operand of `{ ...DEFAULTS, ...params }` holds once the copy has
\* been normalized: the copy has the operand's values, not its entries
spreadAfter(v) ==
    IF isPlainObject(v)
    THEN Obj([i \in 1..Len(v.e) |-> Entry(v.e[i].k, inputAfter(v.e[i].v))])
    ELSE v

\* the operations that normalize `{ ...DEFAULTS, ...params }`
SpreadOps == {"exec", "stop", "createVolume", "getMetrics"}

\* the objects after operation o has run with params p: create normalizes
\* a copy of p and reads one field of its default table, an operation of
\* SpreadOps normalizes a copy of its table and of p, every other operation
\* normalizes p itself; nothing is assigned to PROPERTY_MAP or to
\* this.options
touched(o, p, objs) ==
    [passed |-> IF o \in SpreadOps \cup {"create"} THEN spreadAfter(p) ELSE inputAfter(p),
     defaults |-> [t \in DOMAIN objs.defaults |->
                    IF t = o /\ o \in SpreadOps THEN spreadAfter(objs.defaults[t])
                    ELSE objs.defaults[t]],
     aliases |-> objs.aliases,
     config |-> objs.config]

ClientIdle ==
    /\ store = Pristine
    /\ pc = "idle"
    /\ op = "none"
    /\ params = Undefined
    /\ normalized = Undefined
    /\ requests = <<>>
    /\ responses = <<>>
    /\ outcome = NoOutcome

\* what `outbound`, `delivered` and `settled` hold before the first request
NoRequest == [method |-> "", path |-> Path("", Undefined), headers |-> Obj(<<>>),
              body |-> Undefined]
Nothing == [kind |-> "none", status |-> 0, format |-> "", data |-> Undefined]
Unsettled == [threw |-> FALSE, val |-> Undefined]

HttpOff ==
    /\ options = Undefined
    /\ token = Undefined
    /\ hpc = "off"
    /\ outbound = NoRequest
    /\ timer = "none"
    /\ elapsed = FALSE
    /\ delivered = Nothing
    /\ settled = Unsettled

CallsOff ==
    /\ calls = <<>>
    /\ wire = <<>>

NotConnecting == [kind |-> "none", client |-> Undefined, apiBaseUrl |-> Undefined,
                  msg |-> Undefined]

CliOff ==
    /\ argv = <<>>
    /\ cliPc = "off"
    /\ cmdName = ""
    /\ stderr = <<>>
    /\ exitStatus = -1
    /\ failure = "none"

ConnectOff ==
    /\ given = Undefined
    /\ env = Undefined
    /\ file = Undefined
    /\ cpc = "off"
    /\ client = Undefined
    /\ connected = NotConnecting

InitNormalize ==
    /\ input \in Payloads(MaxDepth)
    /\ once = Undefined
    /\ twice = Undefined
    /\ phase = "input"
    /\ ClientIdle
    /\ HttpOff
    /\ CallsOff
    /\ ConnectOff
    /\ CliOff

Normalize ==
    /\ phase = "input"
    /\ once' = normalize(input)
    /\ phase' = "once"
    /\ UNCHANGED <<input, twice>>
    /\ UNCHANGED <<clientVars, httpVars, callVars, connVars, cliVars>>

Renormalize ==
    /\ phase = "once"
    /\ twice' = normalize(once)
    /\ phase' = "twice"
    /\ UNCHANGED <<input, once>>
    /\ UNCHANGED <<clientVars, httpVars, callVars, connVars, cliVars>>

NextNormalize == Normalize \/ Renormalize

SpecNormalize == InitNormalize /\ [][NextNormalize]_vars

\* some mapping at some depth of v has a source key of the alias table
RECURSIVE HasAliasKey(_)
HasAliasKey(v) ==
    CASE v.t = "map" -> \E i \in 1..Len(v.e) :
                            v.e[i].k \in AliasKeys \/ HasAliasKey(v.e[i].v)
      [] v.t = "seq" -> \E i \in 1..Len(v.e) : HasAliasKey(v.e[i])
      [] OTHER -> FALSE

\* C1: normalizing a normalized payload changes nothing:
\* normalize(normalize(p)) = normalize(p) for every payload p.
C1_Idempotent == phase = "twice" => twice = once

\* a payload with aliases (which the first pass rewrote) has been normalized twice
C1_Witness == phase = "twice" /\ HasAliasKey(input) /\ once # input

\* C2: no mapping key at any depth of the output of normalize is a source key
\* of the alias table, whatever nesting of mappings and sequences leads to it.
C2_NoAliasKeyInOutput == phase # "input" => ~HasAliasKey(once)

\* the canonical form of a key by the rows of the alias table
Canonical(key) == IF key \in AliasKeys THEN PROPERTY_MAP[key] ELSE key

\* no two keys of the mapping m are spellings of one canonical key
NoCollision(m) ==
    \A i, j \in 1..Len(m.e) : Canonical(m.e[i].k) = Canonical(m.e[j].k) => i = j

\* C11: normalize never fails, and a key of the input mapping that is not a
\* source key of the alias table is in the output under exactly the same key,
\* with its normalized value. (Stated for the keys that share their canonical
\* key with no other key of the mapping, where no tie-break applies.)
C11_UnknownKeysPreserved ==
    phase # "input" =>
        /\ once.t = "map"
        /\ \A i \in 1..Len(input.e) :
            (/\ input.e[i].k \notin AliasKeys
             /\ \A j \in 1..Len(input.e) :
                    Canonical(input.e[j].k) = Canonical(input.e[i].k) => j = i)
            => /\ input.e[i].k \in Keys(once)
               /\ Get(once, input.e[i].k) = normalizeValue(input.e[i].v)

\* the shape of a value is kept exactly: entries, items and scalars correspond
\* position by position
RECURSIVE SameShape(_, _)
SameShape(in, out) ==
    /\ in.t = out.t
    /\ CASE in.t = "map" ->
                /\ Len(out.e) = Len(in.e)
                /\ \A i \in 1..Len(in.e) : SameShape(in.e[i].v, out.e[i].v)
         [] in.t = "seq" ->
                /\ Len(out.e) = Len(in.e)
                /\ \A i \in 1..Len(in.e) : SameShape(in.e[i], out.e[i])
         [] OTHER -> out = in

\* the shape is kept except that the entries of a mapping whose keys collide
\* may merge
RECURSIVE SameShapeButCollisions(_, _)
SameShapeButCollisions(in, out) ==
    /\ in.t = out.t
    /\ CASE in.t = "map" ->
                IF NoCollision(in)
                THEN /\ Len(out.e) = Len(in.e)
                     /\ \A i \in 1..Len(in.e) :
                            SameShapeButCollisions(in.e[i].v, out.e[i].v)
                ELSE /\ Len(out.e) <= Len(in.e)
                     /\ Len(out.e) >= 1
                     /\ \A j \in 1..Len(out.e) : \E i \in 1..Len(in.e) :
                            SameShapeButCollisions(in.e[i].v, out.e[j].v)
         [] in.t = "seq" ->
                /\ Len(out.e) = Len(in.e)
                /\ \A i \in 1..Len(in.e) : SameShapeButCollisions(in.e[i], out.e[i])
         [] OTHER -> out = in

\* C12 as stated: the output of normalize is structurally isomorphic to its
\* input (same number of entries in every mapping, same length and order of
\* every sequence, every scalar unchanged in place).
C12_Isomorphic == phase # "input" => SameShape(input, once)

\* C12 as amended: the same, except that a mapping two of whose keys are
\* spellings of the same canonical key may have fewer entries than its input.
C12_IsomorphicButCollisions == phase # "input" => SameShapeButCollisions(input, once)

\* a mapping inside a sequence inside a mapping has been normalized
C12_Witness ==
    /\ phase = "once"
    /\ once # input
    /\ \E i \in 1..Len(input.e) :
        /\ input.e[i].v.t = "seq"
        /\ input.e[i].v.e[2].t = "map"
        /\ Len(input.e[i].v.e[2].e) = 2
        /\ HasAliasKey(input.e[i].v.e[2])

---------------------------------------------------------------------------
(* http-client.ts: what HttpClient.request makes of what fetch delivers *)

Aborted == [kind |-> "abort", status |-> 0, format |-> "", data |-> Undefined]
Failed == [kind |-> "failure", status |-> 0, format |-> "", data |-> Undefined]
\* format: "json" (data is the parsed body), "text" (data is the raw text,
\* not valid JSON), "empty" (no body)
Response(status, format, data) ==
    [kind |-> "response", status |-> status, format |-> format, data |-> data]

HttpError(msg, arg, statusCode, method, path, details) ==
    [msg |-> msg, arg |-> arg, statusCode |-> statusCode, method |-> method,
     path |-> path, details |-> details]

Returned(val) == [threw |-> FALSE, val |-> val]
Rejected(err) == [threw |-> TRUE, err |-> err]

\* the catch block without its test of error.name: an abort is reported like
\* any other failure of fetch
requestAbortAsFailure(method, path, resp) ==
    CASE resp.kind = "abort" ->
            Rejected(HttpError("Request failed: ${error.message}", Undefined,
                               0, method, path, Undefined))
      [] resp.kind = "failure" ->
            Rejected(HttpError("Request failed: ${error.message}", Undefined,
                               0, method, path, Undefined))
      [] OTHER ->
            IF resp.status = 204 THEN Returned(Undefined)
            ELSE LET responseData ==
                        CASE resp.format = "empty" -> Obj(<<>>)
                          [] resp.format = "json" -> resp.data
                          [] OTHER -> Obj(<<Entry("message", resp.data)>>)
                 IN IF ~(resp.status >= 200 /\ resp.status <= 299)
                    THEN IF Truthy(Get(responseData, "error"))
                         THEN Rejected(HttpError("${errorData.error}", Get(responseData, "error"),
                                    resp.status, method, path, Get(responseData, "details")))
                         ELSE Rejected(HttpError("HTTP ${response.status}: ${response.statusText}",
                                    Num(resp.status),
                                    resp.status, method, path, Get(responseData, "details")))
                    ELSE Returned(responseData)

\* HttpClient.request from the point where fetch settles
request(method, path, resp) ==
    CASE resp.kind = "abort" ->
            Rejected(HttpError("Request timeout after ${timeout}ms", Undefined,
                               408, method, path, Undefined))
      [] resp.kind = "failure" ->
            Rejected(HttpError("Request failed: ${error.message}", Undefined,
                               0, method, path, Undefined))
      [] OTHER ->
            IF resp.status = 204 THEN Returned(Undefined)
            ELSE LET responseData ==
                        CASE resp.format = "empty" -> Obj(<<>>)
                          [] resp.format = "json" -> resp.data
                          [] OTHER -> Obj(<<Entry("message", resp.data)>>)
                 IN IF ~(resp.status >= 200 /\ resp.status <= 299)
                    THEN IF Truthy(Get(responseData, "error"))
                         THEN Rejected(HttpError("${errorData.error}", Get(responseData, "error"),
                                    resp.status, method, path, Get(responseData, "details")))
                         ELSE Rejected(HttpError("HTTP ${response.status}: ${response.statusText}",
                                    Num(resp.status),
                                    resp.status, method, path, Get(responseData, "details")))
                    ELSE Returned(responseData)

---------------------------------------------------------------------------
(* wrapper.ts: the operations of the Quilt class *)

Outcome(kind, msg, arg, method, status, details, value) ==
    [kind |-> kind, msg |-> msg, arg |-> arg, method |-> method,
     status |-> status, details |-> details, value |-> value]

\* a plain Error (or TypeError) constructed by the library itself
LocalError(t) == Outcome(t.kind, t.msg, t.arg, "", -1, Undefined, Undefined)

\* Quilt.handleError: a QuiltHttpError becomes a QuiltApiError
handleError(err, method) ==
    Outcome("QuiltApiError", err.msg, err.arg, method, err.statusCode, err.details, Undefined)

Result(val) == Outcome("returned", "", Undefined, "", -1, Undefined, val)

Suspend(at, req) == [next |-> at, req |-> req, out |-> NoOutcome]
Finish(out) == [next |-> "done", req |-> Undefined, out |-> out]

\* a lifecycle operation once containerId is known, sending the primary
\* request or throwing
afterResolve(o, n, containerId) ==
    LET b == primaryRequest(o, n, containerId) IN
    IF b.threw THEN Finish(LocalError(b)) ELSE Suspend("primary", b.val)

\* resolveContainerId sending the request whatever the lookup answered
resolveContainerIdUnchecked(o, n, name, h) ==
    IF h.threw THEN Finish(handleError(h.err, "getContainerByName"))
    ELSE IF h.val.t = "undefined"
    THEN Finish(LocalError(Threw("TypeError",
            "Cannot read properties of undefined (reading 'found')", Undefined)))
    ELSE afterResolve(o, n, Get(h.val, "container_id"))

\* resolveContainerId looking the name up again when it was not found
resolveContainerIdRetrying(o, n, name, h) ==
    IF h.threw THEN Finish(handleError(h.err, "getContainerByName"))
    ELSE IF h.val.t = "undefined"
    THEN Finish(LocalError(Threw("TypeError",
            "Cannot read properties of undefined (reading 'found')", Undefined)))
    ELSE IF ~Truthy(Get(h.val, "found")) \/ ~Truthy(Get(h.val, "container_id"))
    THEN Suspend("lookup", resolveContainerIdRequest(name).val)
    ELSE afterResolve(o, n, Get(h.val, "container_id"))

\* Quilt.resolveContainerId from the point where getContainerByName settles,
\* then the rest of the operation up to its next await
resolveContainerId(o, n, name, h) ==
    IF h.threw THEN Finish(handleError(h.err, "getContainerByName"))
    ELSE IF h.val.t = "undefined"
    THEN Finish(LocalError(Threw("TypeError",
            "Cannot read properties of undefined (reading 'found')", Undefined)))
    ELSE IF ~Truthy(Get(h.val, "found")) \/ ~Truthy(Get(h.val, "container_id"))
    THEN Finish(LocalError(Threw("Error", "Container '${name}' not found", name)))
    ELSE afterResolve(o, n, Get(h.val, "container_id"))

\* the operation's local `normalized`
normalizedOf(o, p) ==
    CASE o = "create" -> createRequest(p).body
      [] o = "createVolume" -> createVolumeRequest(p).body
      [] o = "getMetrics" -> normalize(Spread(METRICS_DEFAULTS, p))
      [] o \in {"inspectVolume", "setContainerNetwork", "forceCleanupContainer",
                "comprehensiveNetworkCleanup"} -> normalize(p)
      [] OTHER -> normalizedParams(o, p)

\* a lifecycle operation keeping the identifiers it has looked up: a name
\* some call has already sent a lookup for is not looked up again
startCached(o, p) ==
    CASE o = "create" -> Suspend("primary", createRequest(p))
      [] o = "createVolume" -> Suspend("primary", createVolumeRequest(p))
      [] o = "getMetrics" -> Suspend("primary", getMetricsRequest(p))
      [] o = "inspectVolume" -> Suspend("primary", inspectVolumeRequest(p))
      [] o = "setContainerNetwork" -> Suspend("primary", setContainerNetworkRequest(p))
      [] o = "forceCleanupContainer" -> Suspend("primary", forceCleanupContainerRequest(p))
      [] o = "comprehensiveNetworkCleanup" ->
            Suspend("primary", comprehensiveNetworkCleanupRequest(p))
      [] OTHER ->
            LET n == normalizedParams(o, p) IN
            IF Truthy(Get(n, "container_id"))
            THEN afterResolve(o, n, Get(n, "container_id"))
            ELSE LET r == resolveContainerIdRequest(Get(n, "container_name")) IN
                 IF r.threw THEN Finish(LocalError(r))
                 ELSE IF \E i \in 1..Len(wire) :
                            wire[i].kind = "request" /\ wire[i].req = r.val
                 THEN afterResolve(o, n, Str("c7"))
                 ELSE Suspend("lookup", r.val)

\* an operation from its call up to its first await (or its throw)
start(o, p) ==
    CASE o = "create" -> Suspend("primary", createRequest(p))
      [] o = "createVolume" -> Suspend("primary", createVolumeRequest(p))
      [] o = "getMetrics" -> Suspend("primary", getMetricsRequest(p))
      [] o = "inspectVolume" -> Suspend("primary", inspectVolumeRequest(p))
      [] o = "setContainerNetwork" -> Suspend("primary", setContainerNetworkRequest(p))
      [] o = "forceCleanupContainer" -> Suspend("primary", forceCleanupContainerRequest(p))
      [] o = "comprehensiveNetworkCleanup" ->
            Suspend("primary", comprehensiveNetworkCleanupRequest(p))
      [] OTHER ->
            LET n == normalizedParams(o, p) IN
            IF Truthy(Get(n, "container_id"))
            THEN afterResolve(o, n, Get(n, "container_id"))
            ELSE LET r == resolveContainerIdRequest(Get(n, "container_name")) IN
                 IF r.threw THEN Finish(LocalError(r)) ELSE Suspend("lookup", r.val)

\* errors.length > 0 ? errors.join(', ') : ''
Joined(errors) ==
    IF Len(errors.e) > 0 THEN Arr(<<Str("join(', ')"), errors>>) ELSE Str("")

\* what the operation returns when its primary request succeeds
returnValue(o, val) ==
    CASE o = "createVolume" ->
            Obj(<< Entry("success", Bool(TRUE)), Entry("error_message", Str("")),
                   Entry("volume", val) >>)
      [] o = "remove" -> Undefined
      [] o = "inspectVolume" ->
            Obj(<< Entry("found", Bool(TRUE)), Entry("volume", val),
                   Entry("error_message", Str("")) >>)
      [] o = "setContainerNetwork" ->
            Obj(<< Entry("success", Get(val, "success")),
                   Entry("error_message", IF Truthy(Get(val, "success"))
                                          THEN Str("") ELSE Get(val, "message")) >>)
      [] o = "forceCleanupContainer" ->
            Obj(<< Entry("success", Get(val, "success")),
                   Entry("error_message", Joined(Get(val, "errors"))),
                   Entry("cleaned_resources", Get(val, "resources_cleaned")) >>)
      [] o = "comprehensiveNetworkCleanup" ->
            Obj(<< Entry("cleaned_resources",
                         Arr(Get(val, "cleaned_allocations").e \o
                             Get(val, "removed_interfaces").e)),
                   Entry("success", Bool(Len(Get(val, "errors").e) = 0)),
                   Entry("error_message", Joined(Get(val, "errors"))) >>)
      [] OTHER -> val

\* the TypeError the try block of an operation raises while it reads the
\* fields of the result val, if it raises one
readFailure(o, val) ==
    IF o = "setContainerNetwork" /\ val.t = "undefined"
    THEN Threw("TypeError", "Cannot read properties of undefined (reading 'success')", Undefined)
    ELSE IF o = "forceCleanupContainer" /\ val.t = "undefined"
    THEN Threw("TypeError", "Cannot read properties of undefined (reading 'success')", Undefined)
    ELSE IF o = "comprehensiveNetworkCleanup" /\ val.t = "undefined"
    THEN Threw("TypeError",
               "Cannot read properties of undefined (reading 'cleaned_allocations')", Undefined)
    ELSE IF o = "comprehensiveNetworkCleanup"
            /\ (Get(val, "cleaned_allocations").t # "seq"
                \/ Get(val, "removed_interfaces").t # "seq")
    THEN Threw("TypeError", "${value} is not iterable", Undefined)
    ELSE IF o \in {"forceCleanupContainer", "comprehensiveNetworkCleanup"}
            /\ Get(val, "errors").t # "seq"
    THEN Threw("TypeError", "Cannot read properties of undefined (reading 'length')", Undefined)
    ELSE Built(Undefined)

\* inspectVolume treating a 404 like every other failure
settleAlwaysThrowing(o, h) ==
    IF h.threw THEN handleError(h.err, o)
    ELSE IF readFailure(o, h.val).threw THEN LocalError(readFailure(o, h.val))
    ELSE Result(returnValue(o, h.val))

\* an operation from the point where its primary request settles: the rest
\* of its try block, or its catch block
settle(o, h) ==
    IF h.threw
    THEN IF o = "inspectVolume" /\ h.err.statusCode = 404
         THEN Result(Obj(<< Entry("found", Bool(FALSE)), Entry("volume", Obj(<<>>)),
                            Entry("error_message", Str("Volume not found")) >>))
         ELSE handleError(h.err, o)
    ELSE IF readFailure(o, h.val).threw THEN LocalError(readFailure(o, h.val))
    ELSE Result(returnValue(o, h.val))

---------------------------------------------------------------------------
(* The caller's inputs and the service's answers *)

\* each optional field of a params object is absent or given in one spelling
OneOf(keys, vals) == {<<>>} \cup {<<Entry(k, v)>> : k \in keys, v \in vals}

IdChoices ==
    OneOf({"id", "containerId", "container_id"}, {Str("c1")})
    \cup OneOf({"name", "containerName", "container_name"}, {Str("my-app")})

Scripts == { Text(<<108>>), Text(<<108, 115>>), Text(<<65, 10, 66>>),
             Text(<<101, 99, 104, 111, 32, 65, 10, 101, 99, 104, 111, 32, 66>>) }
EmptyScript == Text(<<>>)

Commands == { Str("ls -la"),
              Arr(<<Str("node"), Str("app.js")>>),
              Obj(<<Entry("cmd_b64", Text(<<98, 72, 77, 61>>))>>),
              Obj(<<Entry("parts_b64", Arr(<<Text(<<98, 65, 61, 61>>), Text(<<99, 119, 61, 61>>)>>))>>) }

CommandChoices ==
    OneOf({"script"}, Scripts \cup {EmptyScript})
    \cup OneOf({"cmd", "command"}, Commands)
    \cup {<<Entry("script", s), Entry("cmd", Str("ls -la"))>> :
            s \in {EmptyScript, Text(<<108, 115>>)}}

ExecOptionChoices ==
    OneOf({"workdir", "workingDirectory", "working_directory"}, {Str("/app")})
    \cup OneOf({"capture", "captureOutput", "capture_output"}, {Bool(FALSE)})

StopOptionChoices == OneOf({"timeout", "timeoutSeconds", "timeout_seconds"}, {Num(5)})

AsyncChoices == OneOf({"async", "asyncMode", "async_mode"}, {Bool(FALSE), Bool(TRUE)})
ImageChoices == OneOf({"image", "imagePath", "image_path"}, {Str("/images/alpine.tar")})
CmdChoices == OneOf({"cmd", "command"}, {Arr(<<Str("node"), Str("app.js")>>)})
NamespaceChoices == OneOf({"enablePidNamespace", "enable_pid_namespace"}, {Bool(FALSE)})

VolumeChoices == OneOf({"driver"}, {Str("nfs")})

\* maps of the caller's own data: environment variables and volume labels
EnvChoices ==
    OneOf({"env"}, { Obj(<<Entry("PORT", Str("3000"))>>),
                     Obj(<<Entry("id", Str("x"))>>) })
LabelChoices == OneOf({"labels"}, {Obj(<<Entry("timeout", Str("none"))>>)})
MetricsChoices == OneOf({"include", "includeSystem", "include_system"}, {Bool(FALSE)})
MetricsIdChoices == OneOf({"id", "containerId", "container_id"}, {Str("c1")})

VolumeNames == {Str("data"), Str("missing")}
NetworkChoices ==
    OneOf({"networkConfig", "network_config"},
          { Obj(<<Entry("ipAddress", Str("10.0.0.2"))>>),
            Obj(<<Entry("ipAddress", Str("10.0.0.2")),
                  Entry("bridgeInterface", Str("quilt0")),
                  Entry("setup_completed", Bool(FALSE))>>),
            Obj(<<Entry("ip_address", Str("10.0.0.2")),
                  Entry("setupCompleted", Bool(TRUE))>>) })

ConfirmChoices == OneOf({"confirm"}, {Bool(TRUE), Bool(FALSE)})
RemoveVolumesChoices == OneOf({"remove_volumes"}, {Bool(TRUE), Bool(FALSE)})
DryRunChoices == OneOf({"dry_run"}, {Bool(TRUE), Bool(FALSE)})

ParamsOf(o) ==
    CASE o = "create" ->
            {Obj(c \o a \o i \o n \o e) : c \in CmdChoices, a \in AsyncChoices,
                                          i \in ImageChoices, n \in NamespaceChoices,
                                          e \in EnvChoices}
      [] o = "exec" ->
            {Obj(i \o c \o x) : i \in IdChoices, c \in CommandChoices,
                                x \in ExecOptionChoices}
      [] o = "stop" -> {Obj(i \o x) : i \in IdChoices, x \in StopOptionChoices}
      [] o = "createVolume" ->
            {Obj(<<Entry("name", Str("data"))>> \o d \o l) :
                d \in VolumeChoices, l \in LabelChoices}
      [] o = "getMetrics" ->
            {Obj(i \o x) : i \in MetricsIdChoices, x \in MetricsChoices}
      [] o = "inspectVolume" -> {Obj(<<Entry("name", v)>>) : v \in VolumeNames}
      [] o = "setContainerNetwork" ->
            {Obj(i \o n) : i \in MetricsIdChoices, n \in NetworkChoices}
      [] o = "forceCleanupContainer" ->
            {Obj(i \o c \o v) : i \in MetricsIdChoices, c \in ConfirmChoices,
                                v \in RemoveVolumesChoices}
      [] o = "comprehensiveNetworkCleanup" -> {Obj(d) : d \in DryRunChoices}
      [] OTHER -> {Obj(i) : i \in IdChoices}

LookupFound == Response(200, "json",
    Obj(<< Entry("container_id", Str("c7")), Entry("found", Bool(TRUE)),
           Entry("error_message", Str("")) >>))
LookupNotFound == Response(200, "json",
    Obj(<< Entry("container_id", Str("")), Entry("found", Bool(FALSE)),
           Entry("error_message", Str("no such container")) >>))
LookupNoId == Response(200, "json", Obj(<< Entry("found", Bool(TRUE)) >>))
Success == Response(200, "json", Obj(<< Entry("success", Bool(TRUE)) >>))
NoContent == Response(204, "empty", Undefined)
NotFound404 == Response(404, "json",
    Obj(<< Entry("error", Str("not found")), Entry("details", Str("no such resource")) >>))
Error500 == Response(500, "text", Str("Internal Server Error"))
EmptyOk == Response(200, "empty", Undefined)
CleanupDone == Response(200, "json",
    Obj(<< Entry("success", Bool(FALSE)),
           Entry("resources_cleaned", Arr(<<Str("veth0")>>)),
           Entry("cleaned_allocations", Arr(<<Str("10.0.0.2")>>)),
           Entry("removed_interfaces", Arr(<<Str("veth0")>>)),
           Entry("errors", Arr(<<Str("busy")>>)) >>))

Responses == { LookupFound, LookupNotFound, LookupNoId, Success, NoContent,
               EmptyOk, CleanupDone, NotFound404, Error500, Aborted, Failed }

---------------------------------------------------------------------------
(* The client: one operation at a time, suspended at each await *)

NormalizerOff ==
    /\ input = Undefined
    /\ once = Undefined
    /\ twice = Undefined
    /\ phase = "off"

Init == NormalizerOff /\ ClientIdle /\ HttpOff /\ CallsOff /\ ConnectOff /\ CliOff

\* the caller invokes operation o with params p; the operation runs up to
\* its first await or throws
Call(o, p) ==
    /\ pc = "idle"
    /\ LET r == start(o, p) IN
        /\ pc' = r.next
        /\ requests' = IF r.next = "done" THEN requests ELSE Append(requests, r.req)
        /\ outcome' = r.out
    /\ op' = o
    /\ params' = p
    /\ normalized' = normalizedOf(o, p)
    /\ store' = touched(o, p, store)
    /\ UNCHANGED responses
    /\ UNCHANGED <<normVars, httpVars, callVars, connVars, cliVars>>

\* the by-name lookup settles; the operation resumes up to its next await
LookupSettles(resp) ==
    /\ pc = "lookup"
    /\ LET req == requests[Len(requests)]
           r == resolveContainerId(op, normalized, Get(normalized, "container_name"),
                                   request(req.method, req.path, resp)) IN
        /\ pc' = r.next
        /\ requests' = IF r.next = "done" THEN requests ELSE Append(requests, r.req)
        /\ outcome' = r.out
    /\ responses' = Append(responses, resp)
    /\ UNCHANGED <<op, params, normalized, store>>
    /\ UNCHANGED <<normVars, httpVars, callVars, connVars, cliVars>>

\* the primary request settles; the operation returns or throws
PrimarySettles(resp) ==
    /\ pc = "primary"
    /\ LET req == requests[Len(requests)]
           h == request(req.method, req.path, resp) IN
        outcome' = settle(op, h)
    /\ pc' = "done"
    /\ responses' = Append(responses, resp)
    /\ UNCHANGED <<op, params, normalized, requests, store>>
    /\ UNCHANGED <<normVars, httpVars, callVars, connVars, cliVars>>

\* the caller has the result; nothing of the operation is kept
Return ==
    /\ pc = "done"
    /\ pc' = "idle"
    /\ op' = "none"
    /\ params' = Undefined
    /\ normalized' = Undefined
    /\ requests' = <<>>
    /\ responses' = <<>>
    /\ outcome' = NoOutcome
    /\ store' = [store EXCEPT !.passed = Undefined]
    /\ UNCHANGED <<normVars, httpVars, callVars, connVars, cliVars>>

Next ==
    \/ \E o \in Ops : \E p \in ParamsOf(o) : Call(o, p)
    \/ \E resp \in Responses : LookupSettles(resp)
    \/ \E resp \in Responses : PrimarySettles(resp)
    \/ Return

Spec == Init /\ [][Next]_vars

---------------------------------------------------------------------------
(* The transport: one request of a constructed client, from the call of    *)
(* fetch to the value HttpClient.request returns or throws                 *)

\* the constructor taking token before apiKey
credentialTokenFirst(opts) == Or(Get(opts, "token"), Get(opts, "apiKey"))

\* Quilt.constructor: const token = options.apiKey || options.token
credential(opts) == Or(Get(opts, "apiKey"), Get(opts, "token"))

\* `Bearer ${this.token}`
Bearer(tok) == Arr(<<Str("Bearer "), tok>>)

\* the headers of a request
headersOf(tok) ==
    LET headers == Obj(<<Entry("Content-Type", Str("application/json"))>>) IN
    IF Truthy(tok) THEN Put(headers, "Authorization", Bearer(tok)) ELSE headers

\* JSON.stringify, as the value the service parses: an entry whose value is
\* undefined is left out, an undefined item of an array becomes null
RECURSIVE JSONstringify(_)
JSONstringify(v) ==
    CASE v.t = "map" ->
            LET defined(en) == en.v.t # "undefined"
                kept == SelectSeq(v.e, defined)
            IN Obj([i \in 1..Len(kept) |-> Entry(kept[i].k, JSONstringify(kept[i].v))])
      [] v.t = "seq" ->
            Arr([i \in 1..Len(v.e) |->
                    IF v.e[i].t = "undefined" THEN Null ELSE JSONstringify(v.e[i])])
      [] OTHER -> v

OptionChoices ==
    {Obj(a \o t) : a \in OneOf({"apiKey"}, {Str(""), Str("key-A")}),
                   t \in OneOf({"token"}, {Str("tok-T")})}

Methods == {"GET", "POST", "PUT", "DELETE"}
HttpPaths == {Path("/health", Undefined), Path("/containers/${containerId}", Str("c1"))}
Bodies == {Undefined,
           Obj(<<Entry("name", Str("data")), Entry("driver", Undefined)>>)}

BadGateway502 == Response(502, "text", Str("upstream unavailable"))
Conflict409 == Response(409, "json", Obj(<<Entry("message", Str("busy"))>>))
HttpResponses == {Success, EmptyOk, NoContent, NotFound404, Error500,
                  BadGateway502, Conflict409}

InitHttp ==
    /\ NormalizerOff
    /\ ClientIdle
    /\ CallsOff
    /\ ConnectOff
    /\ CliOff
    /\ options \in OptionChoices
    /\ token = credential(options)
    /\ hpc = "idle"
    /\ outbound = NoRequest
    /\ timer = "none"
    /\ elapsed = FALSE
    /\ delivered = Nothing
    /\ settled = Unsettled

\* request(method, path, body) up to `await fetch(...)`
Fetch(method, path, body) ==
    /\ hpc = "idle"
    /\ outbound' = [method |-> method, path |-> path, headers |-> headersOf(token),
                    body |-> IF Truthy(body) THEN JSONstringify(body) ELSE Undefined]
    /\ timer' = "armed"
    /\ hpc' = "fetching"
    /\ UNCHANGED <<options, token, elapsed, delivered, settled>>
    /\ UNCHANGED <<normVars, clientVars, callVars, connVars, cliVars>>

\* the configured timeout has passed since the call of fetch: an armed timer
\* aborts the fetch, a cleared one does nothing
TimeoutElapses ==
    /\ hpc \in {"fetching", "reading"}
    /\ ~elapsed
    /\ elapsed' = TRUE
    /\ IF timer = "armed"
       THEN /\ delivered' = Aborted
            /\ settled' = request(outbound.method, outbound.path, Aborted)
            /\ timer' = "cleared"
            /\ hpc' = "settled"
       ELSE UNCHANGED <<delivered, settled, timer, hpc>>
    /\ UNCHANGED <<options, token, outbound>>
    /\ UNCHANGED <<normVars, clientVars, callVars, connVars, cliVars>>

\* fetch rejects: the connection could not be made or was lost
ConnectionFails ==
    /\ hpc = "fetching"
    /\ delivered' = Failed
    /\ settled' = request(outbound.method, outbound.path, Failed)
    /\ timer' = "cleared"
    /\ hpc' = "settled"
    /\ UNCHANGED <<options, token, outbound, elapsed>>
    /\ UNCHANGED <<normVars, clientVars, callVars, connVars, cliVars>>

\* fetch resolves with the status line and headers of resp: the timer is
\* cleared, and a 204 returns at once
HeadersArrive(resp) ==
    /\ hpc = "fetching"
    /\ delivered' = resp
    /\ timer' = "cleared"
    /\ IF resp.status = 204
       THEN /\ settled' = request(outbound.method, outbound.path, resp)
            /\ hpc' = "settled"
       ELSE /\ hpc' = "reading"
            /\ UNCHANGED settled
    /\ UNCHANGED <<options, token, outbound, elapsed>>
    /\ UNCHANGED <<normVars, clientVars, callVars, connVars, cliVars>>

\* response.text() resolves: the body is parsed and the call returns or throws
BodyArrives ==
    /\ hpc = "reading"
    /\ settled' = request(outbound.method, outbound.path, delivered)
    /\ hpc' = "settled"
    /\ UNCHANGED <<options, token, outbound, timer, elapsed, delivered>>
    /\ UNCHANGED <<normVars, clientVars, callVars, connVars, cliVars>>

\* response.text() rejects: the connection was lost while the body arrived
BodyFails ==
    /\ hpc = "reading"
    /\ delivered' = Failed
    /\ settled' = request(outbound.method, outbound.path, Failed)
    /\ hpc' = "settled"
    /\ UNCHANGED <<options, token, outbound, timer, elapsed>>
    /\ UNCHANGED <<normVars, clientVars, callVars, connVars, cliVars>>

\* the caller of request has its result; the client is ready for the next call
Settled ==
    /\ hpc = "settled"
    /\ hpc' = "idle"
    /\ outbound' = NoRequest
    /\ timer' = "none"
    /\ elapsed' = FALSE
    /\ delivered' = Nothing
    /\ settled' = Unsettled
    /\ UNCHANGED <<options, token>>
    /\ UNCHANGED <<normVars, clientVars, callVars, connVars, cliVars>>

NextHttp ==
    \/ \E method \in Methods : \E path \in HttpPaths : \E body \in Bodies :
            Fetch(method, path, body)
    \/ TimeoutElapses
    \/ ConnectionFails
    \/ \E resp \in HttpResponses : HeadersArrive(resp)
    \/ BodyArrives
    \/ BodyFails
    \/ Settled

SpecHttp == InitHttp /\ [][NextHttp]_vars

---------------------------------------------------------------------------
(* Concurrent callers: operations of one client in flight together, each   *)
(* resuming at its own awaits in any order                                 *)

Callers == {1, 2}

\* the number of operations invoked in one run, all callers together
MaxCalls == 2

ConcurrentOps == {"start", "status"}
ConcurrentParams ==
    {Obj(<<Entry(k, Str("my-app"))>>) : k \in {"containerName", "container_name"}}
    \cup {Obj(<<Entry("id", Str("c1"))>>)}
ConcurrentResponses == {LookupFound, LookupNotFound, Success, Error500}

IdleCaller == [pc |-> "idle", op |-> "none", normalized |-> Undefined,
               requests |-> <<>>, outcome |-> NoOutcome]

\* the operation is given a name and no identifier
ByName(o, p) ==
    LET n == normalizedParams(o, p) IN
    ~Truthy(Get(n, "container_id")) /\ Truthy(Get(n, "container_name"))

Invoked(c, o, p) ==
    [caller |-> c, kind |-> "call", byName |-> ByName(o, p), req |-> Undefined]
Sent(c, req) == [caller |-> c, kind |-> "request", byName |-> FALSE, req |-> req]

CallsMade == Cardinality({i \in 1..Len(wire) : wire[i].kind = "call"})

InitConcurrent ==
    /\ NormalizerOff
    /\ ClientIdle
    /\ HttpOff
    /\ ConnectOff
    /\ CliOff
    /\ calls = [c \in Callers |-> IdleCaller]
    /\ wire = <<>>

\* caller c invokes operation o, which runs up to its first await
CallerCalls(c, o, p) ==
    /\ calls[c].pc = "idle"
    /\ CallsMade < MaxCalls
    /\ LET r == start(o, p) IN
        /\ calls' = [calls EXCEPT ![c] =
                [pc |-> r.next, op |-> o, normalized |-> normalizedOf(o, p),
                 requests |-> IF r.next = "done" THEN <<>> ELSE <<r.req>>,
                 outcome |-> r.out]]
        /\ wire' = IF r.next = "done" THEN Append(wire, Invoked(c, o, p))
                   ELSE wire \o <<Invoked(c, o, p), Sent(c, r.req)>>
    /\ UNCHANGED <<normVars, clientVars, httpVars, connVars, cliVars>>

\* the lookup of caller c settles; its operation resumes up to its next await
CallerLookupSettles(c, resp) ==
    /\ calls[c].pc = "lookup"
    /\ LET me == calls[c]
           req == me.requests[Len(me.requests)]
           r == resolveContainerId(me.op, me.normalized,
                                   Get(me.normalized, "container_name"),
                                   request(req.method, req.path, resp)) IN
        /\ calls' = [calls EXCEPT ![c] =
                [me EXCEPT !.pc = r.next,
                           !.requests = IF r.next = "done" THEN me.requests
                                        ELSE Append(me.requests, r.req),
                           !.outcome = r.out]]
        /\ wire' = IF r.next = "done" THEN wire ELSE Append(wire, Sent(c, r.req))
    /\ UNCHANGED <<normVars, clientVars, httpVars, connVars, cliVars>>

\* the primary request of caller c settles; its operation returns or throws
CallerPrimarySettles(c, resp) ==
    /\ calls[c].pc = "primary"
    /\ LET me == calls[c]
           req == me.requests[Len(me.requests)] IN
        calls' = [calls EXCEPT ![c] =
                [me EXCEPT !.pc = "done",
                           !.outcome = settle(me.op, request(req.method, req.path, resp))]]
    /\ UNCHANGED wire
    /\ UNCHANGED <<normVars, clientVars, httpVars, connVars, cliVars>>

\* caller c has its result; nothing of the operation is kept
CallerReturns(c) ==
    /\ calls[c].pc = "done"
    /\ calls' = [calls EXCEPT ![c] = IdleCaller]
    /\ UNCHANGED wire
    /\ UNCHANGED <<normVars, clientVars, httpVars, connVars, cliVars>>

NextConcurrent ==
    \/ \E c \in Callers : \E o \in ConcurrentOps : \E p \in ConcurrentParams :
            CallerCalls(c, o, p)
    \/ \E c \in Callers : \E resp \in ConcurrentResponses : CallerLookupSettles(c, resp)
    \/ \E c \in Callers : \E resp \in ConcurrentResponses : CallerPrimarySettles(c, resp)
    \/ \E c \in Callers : CallerReturns(c)

SpecConcurrent == InitConcurrent /\ [][NextConcurrent]_vars

---------------------------------------------------------------------------
(* Quilt.connect: configuration from process.env and ~/.quilt/config.json, *)
(* the constructor and the health probe                                     *)

\* config?.key, options?.key
Opt(obj, key) == IF obj.t = "map" THEN Get(obj, key) ELSE Undefined

\* the texts a config file is read with
FullConfigText ==
    "{\"api_key\": \"file-key\", \"api_base_url\": \"http://file\", \"timeout_ms\": 5000}"
KeyConfigText == "{\"api_key\": \"file-key\"}"
BaseConfigText == "{\"api_base_url\": \"http://file\"}"
ConfigTexts == {FullConfigText, KeyConfigText, BaseConfigText, "{}", "null", "{api_key"}

\* JSON.parse of the content of the file
JSONparse(text) ==
    IF text = FullConfigText
    THEN Built(Obj(<< Entry("api_key", Str("file-key")),
                      Entry("api_base_url", Str("http://file")),
                      Entry("timeout_ms", Num(5000)) >>))
    ELSE IF text = KeyConfigText THEN Built(Obj(<< Entry("api_key", Str("file-key")) >>))
    ELSE IF text = BaseConfigText
    THEN Built(Obj(<< Entry("api_base_url", Str("http://file")) >>))
    ELSE IF text = "{}" THEN Built(Obj(<<>>))
    ELSE IF text = "null" THEN Built(Null)
    ELSE Threw("SyntaxError", "Unexpected token", Undefined)

\* the config file: absent, present but not readable (readFileSync throws),
\* or read with a text
NoFile == [exists |-> FALSE, readable |-> FALSE, text |-> ""]
Unreadable == [exists |-> TRUE, readable |-> FALSE, text |-> ""]
FileWith(text) == [exists |-> TRUE, readable |-> TRUE, text |-> text]
Files == {NoFile, Unreadable} \cup {FileWith(text) : text \in ConfigTexts}

\* config.ts loadConfig
loadConfig(f) ==
    IF ~f.exists THEN Null
    ELSE IF ~f.readable THEN Null
    ELSE IF JSONparse(f.text).threw THEN Null
    ELSE JSONparse(f.text).val

\* resolveConfig taking the file's values before the environment's
resolveConfigFileFirst(e, config) ==
    Obj(<< Entry("apiKey", Or(Opt(config, "api_key"), Get(e, "QUILT_API_KEY"))),
           Entry("apiBaseUrl", Or(Opt(config, "api_base_url"), Get(e, "QUILT_API_BASE_URL"))),
           Entry("timeout", Opt(config, "timeout_ms")) >>)

\* config.ts resolveConfig, with process.env e
resolveConfig(e, config) ==
    Obj(<< Entry("apiKey", Or(Get(e, "QUILT_API_KEY"), Opt(config, "api_key"))),
           Entry("apiBaseUrl", Or(Get(e, "QUILT_API_BASE_URL"), Opt(config, "api_base_url"))),
           Entry("timeout", Opt(config, "timeout_ms")) >>)

\* the options static connect hands to the constructor
connectOptions(opts, e, f) ==
    IF ~Truthy(Opt(opts, "token")) /\ ~Truthy(Opt(opts, "apiKey"))
    THEN LET resolved == resolveConfig(e, loadConfig(f))
             own == IF opts.t = "map" THEN opts ELSE Obj(<<>>)
         IN PutAll(Spread(Obj(<<>>), own),
                   << Entry("apiBaseUrl", Or(Opt(opts, "apiBaseUrl"), Get(resolved, "apiBaseUrl"))),
                      Entry("token", Get(resolved, "apiKey")),
                      Entry("timeout", Or(Opt(opts, "timeout"), Get(resolved, "timeout"))) >>, 1)
    ELSE opts

\* Quilt.constructor: this.options
constructQuilt(opts) ==
    LET o == IF opts.t = "map" THEN opts ELSE Obj(<<>>) IN
    Obj(<< Entry("apiBaseUrl", Or(Get(o, "apiBaseUrl"), Str("http://localhost:8080"))),
           Entry("token", credential(o)),
           Entry("timeout", Or(Get(o, "timeout"), Num(30000))) >>)

ConnectedWith(quilt) ==
    [kind |-> "returned", client |-> quilt, apiBaseUrl |-> Undefined, msg |-> Undefined]
QuiltConnectionError(msg, apiBaseUrl) ==
    [kind |-> "QuiltConnectionError", client |-> Undefined, apiBaseUrl |-> apiBaseUrl,
     msg |-> msg]

\* static connect returning the client whatever the probe said
probeIgnored(quilt, h) == ConnectedWith(quilt)

\* Quilt.connect (instance) from the point where this.http.get('/health')
\* settles with h, and the return of static connect after it
probe(quilt, h) ==
    IF h.threw
    THEN QuiltConnectionError(
            Arr(<< Str("Failed to connect to Quilt API at "), Get(quilt, "apiBaseUrl"),
                   Str(": "), Str(h.err.msg) >>),
            Get(quilt, "apiBaseUrl"))
    ELSE ConnectedWith(quilt)

\* what the caller passes to Quilt.connect
GivenChoices ==
    {Undefined} \cup
    {Obj(b \o k \o t \o ms) :
        b \in OneOf({"apiBaseUrl"}, {Str(""), Str("http://explicit")}),
        k \in OneOf({"apiKey"}, {Str("key-A")}),
        t \in OneOf({"token"}, {Str("tok-T")}),
        ms \in OneOf({"timeout"}, {Num(1000)})}

\* process.env: a variable is unset, set to the empty string, or set to a value
ProcessEnvs ==
    {Obj(k \o b) : k \in OneOf({"QUILT_API_KEY"}, {Str(""), Str("env-key")}),
                   b \in OneOf({"QUILT_API_BASE_URL"}, {Str(""), Str("http://env")})}

\* what the service answers to GET /health
ProbeResponses == HttpResponses \cup {Aborted, Failed}

InitConnect ==
    /\ NormalizerOff
    /\ ClientIdle
    /\ HttpOff
    /\ CallsOff
    /\ CliOff
    /\ given \in GivenChoices
    /\ env \in ProcessEnvs
    /\ file \in Files
    /\ cpc = "idle"
    /\ client = Undefined
    /\ connected = NotConnecting

\* static connect up to `await quilt.connect()`: the configuration is
\* resolved, the Quilt is constructed and GET /health is sent
StaticConnect ==
    /\ cpc = "idle"
    /\ client' = constructQuilt(connectOptions(given, env, file))
    /\ cpc' = "probing"
    /\ UNCHANGED <<given, env, file, connected>>
    /\ UNCHANGED <<normVars, clientVars, httpVars, callVars, cliVars>>

\* the probe settles with resp: static connect returns the Quilt or throws
ProbeSettles(resp) ==
    /\ cpc = "probing"
    /\ delivered' = resp
    /\ settled' = request("GET", Path("/health", Undefined), resp)
    /\ connected' = probe(client, request("GET", Path("/health", Undefined), resp))
    /\ cpc' = "done"
    /\ UNCHANGED <<given, env, file, client>>
    /\ UNCHANGED <<options, token, hpc, outbound, timer, elapsed>>
    /\ UNCHANGED <<normVars, clientVars, callVars, cliVars>>

NextConnect ==
    \/ StaticConnect
    \/ \E resp \in ProbeResponses : ProbeSettles(resp)

SpecConnect == InitConnect /\ [][NextConnect]_vars

---------------------------------------------------------------------------
(* The CLI: main, getClient and the commands health, containers, stop,     *)
(* remove, exec, invoke                                                    *)

aliases ==
    [ps |-> "containers", ls |-> "containers", list |-> "containers", rm |-> "remove",
     run |-> "create", fn |-> "functions", fns |-> "functions"]

\* the commands of the table `commands` that are modelled
commands == {"health", "containers", "stop", "remove", "exec", "invoke"}

\* a.startsWith('--')
startsWithDashes(a) == a \in {"--payload", "--async", "--help", "--version"}

\* args.find(a => !a.startsWith('--')), "" when there is none
RECURSIVE find(_, _)
find(args, i) ==
    IF i > Len(args) THEN ""
    ELSE IF ~startsWithDashes(args[i]) THEN args[i]
    ELSE find(args, i + 1)

\* the loop of invoke over its arguments: payload is the argument after the
\* last --payload or -p ("" when there is none), asyncMode is set by --async
\* or -a
RECURSIVE flags(_, _, _)
flags(args, i, acc) ==
    IF i > Len(args) THEN acc
    ELSE IF args[i] \in {"--payload", "-p"}
    THEN flags(args, i + 2,
               [acc EXCEPT !.payload = IF i + 1 > Len(args) THEN "" ELSE args[i + 1]])
    ELSE IF args[i] \in {"--async", "-a"}
    THEN flags(args, i + 1, [acc EXCEPT !.asyncMode = TRUE])
    ELSE flags(args, i + 1, acc)

invokeFlags(args) == flags(args, 1, [payload |-> "", asyncMode |-> FALSE])

\* JSON.parse(payload) throws
Unparsable(payload) == payload \in {"{bad", "web", "build"}

\* error(msg): one line on standard error, prefixed in red
error(msg) == [red |-> TRUE, text |-> msg]

\* the first check of a command's run: the message of the error it prints
\* for a missing argument, "" when its arguments are there
missingArgument(name, args) ==
    CASE name \in {"stop", "remove"} ->
            IF Len(args) = 0 THEN "Container name is required" ELSE ""
      [] name = "exec" ->
            IF Len(args) < 2 THEN "Container name and command are required" ELSE ""
      [] name = "invoke" ->
            IF find(args, 1) = "" THEN "Function name is required" ELSE ""
      [] OTHER -> ""

\* what the process has done when it exits
Exit(lines, status, why) == [stderr |-> lines, status |-> status, failure |-> why]

\* commands.invoke.run from the point where quilt.invoke settles with r
invokeSettles(args, r) ==
    IF r.threw THEN Exit(<<error("${err.message}")>>, 1, "threw")
    ELSE IF invokeFlags(args).asyncMode THEN Exit(<<>>, 0, "none")
    ELSE IF Truthy(Get(r.val, "success")) THEN Exit(<<>>, 0, "none")
    ELSE Exit(<<error("Invocation failed: ${result.error_message}")>>, 0, "unsuccessful")

\* commands.exec.run from the point where quilt.exec settles with r
execSettles(args, r) ==
    IF r.threw THEN Exit(<<error("${err.message}")>>, 1, "threw")
    ELSE LET written == IF Truthy(Get(r.val, "stderr"))
                        THEN << [red |-> FALSE, text |-> "${result.stderr}"] >> ELSE <<>>
             code == Or(Get(r.val, "exit_code"), Num(0)).b[1]
         IN Exit(written, code, IF code = 0 THEN "none" ELSE "unsuccessful")

\* commands.stop.run and commands.remove.run from the point where the SDK
\* call settles with r
plainSettles(args, r) ==
    IF r.threw THEN Exit(<<error("${err.message}")>>, 1, "threw")
    ELSE Exit(<<>>, 0, "none")

\* commands.health.run and commands.containers.run from the point where the
\* SDK call settles with r: reading a field of an undefined result throws
\* inside the try block
listingSettles(args, r) ==
    IF r.threw THEN Exit(<<error("${err.message}")>>, 1, "threw")
    ELSE IF r.val.t = "undefined" THEN Exit(<<error("${err.message}")>>, 1, "threw")
    ELSE Exit(<<>>, 0, "none")

sdkSettles(name, args, r) ==
    CASE name = "invoke" -> invokeSettles(args, r)
      [] name = "exec" -> execSettles(args, r)
      [] name \in {"health", "containers"} -> listingSettles(args, r)
      [] OTHER -> plainSettles(args, r)

\* what the SDK call of a command returns or throws
SdkResults(name) ==
    {Threw("QuiltApiError", "HTTP 500", Undefined)} \cup
    CASE name = "invoke" ->
            {Built(Obj(<< Entry("success", Bool(ok)), Entry("error_message", Str(msg)),
                          Entry("invocation_id", Str("inv-1")) >>)) :
                ok \in BOOLEAN, msg \in {"", "handler crashed"}}
      [] name = "exec" ->
            {Built(Obj(<< Entry("exit_code", code), Entry("stderr", Str(text)) >>)) :
                code \in {Num(0), Num(2), Undefined}, text \in {"", "ls: not found"}}
      [] OTHER -> {Built(Obj(<< Entry("success", Bool(TRUE)) >>)), Built(Undefined)}

Argvs ==
    { <<>>, <<"help">>, <<"--help">>, <<"bogus">>, <<"rm">>, <<"ps">>, <<"health">>,
      <<"stop">>, <<"stop", "web">>, <<"stop", "db">>,
      <<"remove">>, <<"rm", "web">>, <<"remove", "web", "--force">>,
      <<"exec", "web", "ls", "-l">>, <<"invoke", "build", "-p", "{}">>,
      <<"exec">>, <<"exec", "web">>, <<"exec", "web", "ls">>,
      <<"invoke">>, <<"invoke", "--async">>, <<"invoke", "build">>,
      <<"invoke", "build", "--async">>, <<"invoke", "build", "-a">>,
      <<"invoke", "build", "--payload", "{}">>,
      <<"invoke", "build", "--payload", "{bad">>,
      <<"invoke", "--payload", "{}">>, <<"invoke", "build", "--payload">> }

InitCli ==
    /\ NormalizerOff
    /\ ClientIdle
    /\ HttpOff
    /\ CallsOff
    /\ ConnectOff
    /\ argv \in Argvs
    /\ cliPc = "start"
    /\ cmdName = ""
    /\ stderr = <<>>
    /\ exitStatus = -1
    /\ failure = "none"

\* process.exit(status), or the return of main
Exits(run) ==
    /\ cliPc' = "exited"
    /\ stderr' = stderr \o run.stderr
    /\ exitStatus' = run.status
    /\ failure' = run.failure

\* main up to the first await of the command: help, an unknown command and a
\* missing argument end the process at once
main ==
    /\ cliPc = "start"
    /\ LET name == IF Len(argv) > 0 /\ argv[1] \in DOMAIN aliases
                   THEN aliases[argv[1]]
                   ELSE IF Len(argv) > 0 /\ argv[1] \in {"-h", "--help"} THEN "help"
                   ELSE IF Len(argv) > 0 THEN argv[1] ELSE ""
           cmdArgs == IF Len(argv) > 0 THEN Tail(argv) ELSE <<>>
       IN /\ cmdName' = name
          /\ IF Len(argv) = 0 \/ name = "help" THEN Exits(Exit(<<>>, 0, "none"))
             ELSE IF name \notin commands
             THEN Exits(Exit(<<error("Unknown command: ${cmdName}")>>, 1, "unknown"))
             ELSE IF missingArgument(name, cmdArgs) # ""
             THEN Exits(Exit(<<error(missingArgument(name, cmdArgs))>>, 1, "missing"))
             ELSE /\ cliPc' = "connecting"
                  /\ UNCHANGED <<stderr, exitStatus, failure>>
    /\ UNCHANGED argv
    /\ UNCHANGED <<normVars, clientVars, httpVars, callVars, connVars>>

\* getClient: Quilt.connect resolves, or throws and the process exits; the
\* command then runs up to its SDK call, where invoke parses its payload
getClient(reached) ==
    /\ cliPc = "connecting"
    /\ IF ~reached
       THEN Exits(Exit(<<error("Failed to connect: ${err.message}")>>, 1, "connection"))
       ELSE IF cmdName = "invoke" /\ Unparsable(invokeFlags(Tail(argv)).payload)
       THEN Exits(Exit(<<error("${err.message}")>>, 1, "threw"))
       ELSE /\ cliPc' = "calling"
            /\ UNCHANGED <<stderr, exitStatus, failure>>
    /\ UNCHANGED <<argv, cmdName>>
    /\ UNCHANGED <<normVars, clientVars, httpVars, callVars, connVars>>

\* the SDK call of the command settles with r; the command prints its result
\* and the process exits
SdkSettles(r) ==
    /\ cliPc = "calling"
    /\ Exits(sdkSettles(cmdName, Tail(argv), r))
    /\ UNCHANGED <<argv, cmdName>>
    /\ UNCHANGED <<normVars, clientVars, httpVars, callVars, connVars>>

NextCli ==
    \/ main
    \/ \E reached \in BOOLEAN : getClient(reached)
    \/ \E r \in SdkResults(cmdName) : SdkSettles(r)

SpecCli == InitCli /\ [][NextCli]_vars

---------------------------------------------------------------------------
(* Properties of the operations *)

\* equality of two values as payloads: the entries of a mapping are unordered
RECURSIVE SameValue(_, _)
SameValue(a, b) ==
    IF a.t # b.t THEN FALSE
    ELSE CASE a.t = "map" ->
                /\ Keys(a) = Keys(b)
                /\ \A k \in Keys(a) : SameValue(Get(a, k), Get(b, k))
           [] a.t = "seq" ->
                /\ Len(a.e) = Len(b.e)
                /\ \A i \in 1..Len(a.e) : SameValue(a.e[i], b.e[i])
           [] OTHER -> a = b

SameRequest(r1, r2) ==
    /\ r1.method = r2.method
    /\ r1.path = r2.path
    /\ r1.query = r2.query
    /\ SameValue(r1.body, r2.body)

\* the spellings the alias table accepts for the field that key names
Spellings(key) ==
    LET canonical == IF key \in AliasKeys THEN PROPERTY_MAP[key] ELSE key IN
    {canonical} \cup {r[1] : r \in {x \in AliasRows : x[2] = canonical}}

\* the params objects that differ from p in the spelling of one field
Respellings(p) ==
    {Obj([j \in 1..Len(p.e) |-> IF j = i THEN Entry(k, p.e[i].v) ELSE p.e[j]]) :
        <<i, k>> \in {x \in (1..Len(p.e)) \X (AliasKeys \cup {r[2] : r \in AliasRows}) :
                        x[2] \in Spellings(p.e[x[1]].k)}}

DefaultedOps == {"create", "exec", "stop", "createVolume", "getMetrics"}

IsLookup(req) == req.path.route = "/containers/by-name/${normalized.name}"

\* C3: alias equivalence. For the operations that apply defaults, the request
\* the operation sends is the one it would send had the caller spelled any
\* one field of params in another spelling of the alias table.
C3_AliasEquivalence ==
    (op \in DefaultedOps /\ pc \in {"lookup", "primary"}) =>
        \A q \in Respellings(params) :
            LET r == IF Len(requests) = 1 THEN start(op, q)
                     ELSE resolveContainerId(op, normalizedOf(op, q),
                            Get(normalizedOf(op, q), "container_name"),
                            request(requests[1].method, requests[1].path, responses[1]))
            IN r.next = pc /\ SameRequest(r.req, requests[Len(requests)])

\* the default table of an operation
DefaultsOf(o) ==
    CASE o = "create" -> CONTAINER_DEFAULTS
      [] o = "exec" -> EXEC_DEFAULTS
      [] o = "stop" -> STOP_DEFAULTS
      [] o = "createVolume" -> VOLUME_DEFAULTS
      [] o = "getMetrics" -> METRICS_DEFAULTS
      [] OTHER -> Obj(<<>>)

\* the value a request carries for a canonical field
Carried(o, req, field) ==
    CASE o = "exec" /\ field = "working_directory" -> Get(req.body, "workdir")
      [] o = "getMetrics" ->
            IF \E i \in 1..Len(req.query) : req.query[i].name = field
            THEN req.query[CHOOSE i \in 1..Len(req.query) : req.query[i].name = field].val
            ELSE Undefined
      [] OTHER -> Get(req.body, field)

\* C4: default non-override. When the caller supplies a value for a defaulted
\* field, in any spelling, the primary request carries the caller's value.
\* (Stated for the operations that transmit their payload; stop sends no
\* payload at all and is left to the claim about its grace period. Stated
\* for the fields that are not maps of caller data, whose entries are left to
\* the claim about data maps.)
C4_DefaultNonOverride ==
    (op \in DefaultedOps \ {"stop"} /\ pc = "primary") =>
        \A i \in 1..Len(params.e) :
            \A f \in Spellings(params.e[i].k) \cap Keys(DefaultsOf(op)) :
                params.e[i].v.t # "map" =>
                    Carried(op, requests[Len(requests)], f) = params.e[i].v

IdSpellings == {"id", "containerId", "container_id"}
NameSpellings == {"containerName", "container_name"}

\* C5: the lifecycle operations accept `name` for the container name: given
\* {name: N} and no id they look N up, and when the lookup does not find N
\* they fail with the not-found error that names N, sending no primary request.
C5_NameIsAccepted ==
    (op \in LifecycleOps /\ "name" \in Keys(params) /\ Keys(params) \cap IdSpellings = {}) =>
        /\ requests # <<>>
        /\ IsLookup(requests[1])
        /\ requests[1].path.id = Get(params, "name")
        /\ (pc = "done" /\ Len(requests) = 1 /\ responses = <<LookupNotFound>>) =>
                /\ outcome.msg = "Container '${name}' not found"
                /\ outcome.arg = Get(params, "name")

\* the lookup answered with a result that says the container was not found
ReportsNotFound(resp) ==
    /\ resp.kind = "response"
    /\ resp.status >= 200 /\ resp.status <= 299 /\ resp.status # 204
    /\ resp.format = "json"
    /\ ~Truthy(Get(resp.data, "found"))

OnlyName ==
    /\ op \in LifecycleOps
    /\ Keys(params) \cap IdSpellings = {}
    /\ Keys(params) \cap NameSpellings # {}

GivenName ==
    IF "container_name" \in Keys(params) THEN Get(params, "container_name")
    ELSE Get(params, "containerName")

\* C6: an operation given only a container name whose lookup reports not
\* found fails with a locally constructed error that names the name, which is
\* not an API failure, and its primary request is never sent.
C6_NotFoundIsLocalError ==
    (OnlyName /\ responses # <<>> /\ ReportsNotFound(responses[1])) =>
        /\ pc = "done"
        /\ Len(requests) = 1 /\ IsLookup(requests[1])
        /\ outcome.kind = "Error"
        /\ outcome.msg = "Container '${name}' not found"
        /\ outcome.arg = GivenName
        /\ outcome.status = -1

C6_Witness ==
    /\ OnlyName /\ op = "exec" /\ Truthy(Get(params, "script"))
    /\ responses = <<LookupNotFound>>
    /\ outcome.kind = "Error"

\* C7: exec called with neither a command nor a script raises the local
\* validation error before any network request has been sent, however the
\* container is identified.
C7_ValidationBeforeNetwork ==
    (op = "exec" /\ Keys(params) \cap {"cmd", "command", "script"} = {}) =>
        /\ requests = <<>>
        /\ pc = "done"
        /\ outcome.kind = "Error"

\* the position in the base64 alphabet of a character code, -1 if none
B64Index(c) ==
    IF \E i \in 0..63 : B64Char(i) = c THEN CHOOSE i \in 0..63 : B64Char(i) = c
    ELSE -1

\* base64 decoding, as the service does it: <<-1>> if chars is not base64
RECURSIVE Base64Decode(_, _)
Base64Decode(chars, i) ==
    IF i > Len(chars) THEN <<>>
    ELSE IF i + 3 > Len(chars) THEN <<-1>>
    ELSE LET a == B64Index(chars[i])
             b == B64Index(chars[i + 1])
             c == B64Index(chars[i + 2])
             d == B64Index(chars[i + 3])
             b1 == a * 4 + b \div 16
             b2 == (b % 16) * 16 + c \div 4
             b3 == (c % 4) * 64 + d
         IN IF a < 0 \/ b < 0 THEN <<-1>>
            ELSE IF chars[i + 2] = B64Pad /\ chars[i + 3] = B64Pad /\ i + 3 = Len(chars)
            THEN <<b1>>
            ELSE IF c < 0 THEN <<-1>>
            ELSE IF chars[i + 3] = B64Pad /\ i + 3 = Len(chars) THEN <<b1, b2>>
            ELSE IF d < 0 THEN <<-1>>
            ELSE <<b1, b2, b3>> \o Base64Decode(chars, i + 4)

ExecSent ==
    /\ op = "exec"
    /\ requests # <<>>
    /\ requests[Len(requests)].path.route = "/containers/${containerId}/exec"

\* the value the caller gave for a field in one of its spellings, else dflt
Given(spellings, dflt) ==
    IF Keys(params) \cap spellings = {} THEN dflt
    ELSE Get(params, CHOOSE k \in spellings : k \in Keys(params))

\* C8: the command exec transmits is {cmd_b64: base64(script)} for a
\* non-empty script, and otherwise the caller's command unchanged (a string,
\* a sequence, a {cmd_b64} object or a {parts_b64} object); the body carries
\* workdir and capture_output besides.
C8_ExecBody ==
    ExecSent =>
        LET body == requests[Len(requests)].body
            script == Get(params, "script")
            command == Given({"cmd", "command"}, Undefined)
            sent == Get(body, "command")
        IN /\ Keys(body) = {"command", "workdir", "capture_output"}
           /\ IF Truthy(script)
              THEN /\ sent.t = "map" /\ Keys(sent) = {"cmd_b64"}
                   /\ Get(sent, "cmd_b64").t = "text"
                   /\ Base64Decode(Get(sent, "cmd_b64").b, 1) = script.b
              ELSE sent = command
           /\ Get(body, "workdir") =
                Given({"workdir", "workingDirectory", "working_directory"}, Str("/"))
           /\ Get(body, "capture_output") =
                Given({"capture", "captureOutput", "capture_output"}, Bool(TRUE))

\* exec has sent the two-line script of the scenario, encoded
C8_Witness ==
    /\ ExecSent /\ pc = "primary"
    /\ Get(params, "script") =
            Text(<<101, 99, 104, 111, 32, 65, 10, 101, 99, 104, 111, 32, 66>>)
    /\ Get(Get(requests[Len(requests)].body, "command"), "cmd_b64") =
            Text(<<90, 87, 78, 111, 98, 121, 66, 66, 67, 109, 86, 106, 97, 71, 56, 103, 81, 103, 61, 61>>)

AsyncSpellings == {"async", "asyncMode", "async_mode"}
ImageSpellings == {"image", "imagePath", "image_path"}

NoAsyncNoImage ==
    /\ op = "create"
    /\ Keys(params) \cap (AsyncSpellings \cup ImageSpellings) = {}

\* C9: create called with no async flag and no image or image path sends
\* async_mode true and the default image path, with the caller's other fields
\* under their canonical keys (cmd as command).
C9_CreateDefaults ==
    (NoAsyncNoImage /\ pc # "idle") =>
        LET body == requests[1].body IN
        /\ pc # "done" => Len(requests) = 1
        /\ requests[1].method = "POST" /\ requests[1].path.route = "/containers"
        /\ Get(body, "async_mode") = Bool(TRUE)
        /\ Get(body, "image_path") = Str("/var/lib/quilt/images/default.tar")
        /\ "cmd" \in Keys(params) =>
                Get(body, "command") = Get(params, "cmd") /\ "cmd" \notin Keys(body)
        /\ \A i \in 1..Len(params.e) :
                \E canonical \in {r[2] : r \in AliasRows} \cup {params.e[i].k} :
                    /\ canonical \in Spellings(params.e[i].k)
                    /\ canonical \notin AliasKeys
                    /\ IF params.e[i].v.t = "map"
                       THEN Get(body, canonical).t = "map"
                       ELSE Get(body, canonical) = params.e[i].v
        /\ Keys(body) \cap AliasKeys = {}

C9_Witness ==
    /\ NoAsyncNoImage /\ pc = "primary"
    /\ Get(params, "cmd") = Arr(<<Str("node"), Str("app.js")>>)
    /\ Get(requests[1].body, "command") = Arr(<<Str("node"), Str("app.js")>>)

\* C10: create applies all the documented container defaults: the payload of
\* create({}) has the five enable_*_namespace flags true, besides image_path
\* and async_mode.
C10_AllDefaultsApplied ==
    (op = "create" /\ params = Obj(<<>>) /\ pc = "primary") =>
        LET body == requests[1].body IN
        /\ Get(body, "image_path") = Get(CONTAINER_DEFAULTS, "image_path")
        /\ Get(body, "async_mode") = Bool(TRUE)
        /\ \A f \in {"enable_pid_namespace", "enable_mount_namespace",
                     "enable_uts_namespace", "enable_ipc_namespace",
                     "enable_network_namespace"} : Get(body, f) = Bool(TRUE)

\* what the transport made of the last response it was handed
LastSettled ==
    LET req == requests[Len(requests)] IN
    request(req.method, req.path, responses[Len(responses)])

\* the operation has ended by throwing after a request of its own failed
FailedOnTransport ==
    /\ pc = "done"
    /\ Len(responses) > 0
    /\ LastSettled.threw
    /\ outcome.kind # "returned"

\* C13: an operation that fails because a request it sent failed (non-2xx
\* response, timeout or connection failure) throws a QuiltApiError carrying
\* the name of the operation the caller invoked, the transport's status and
\* the service's detail string.
C13_TransportFailureNamesOperation ==
    FailedOnTransport =>
        /\ outcome.kind = "QuiltApiError"
        /\ outcome.method = op
        /\ outcome.status = LastSettled.err.statusCode
        /\ outcome.details = LastSettled.err.details

\* the error kinds of the library: QuiltConnectionError, QuiltApiError and
\* the plain Error of a failed validation
TypedKinds == {"QuiltConnectionError", "QuiltApiError", "Error"}

\* C14: every operation either succeeds or fails with one of the three typed
\* error kinds, whatever the service answers (a 2xx response with no body or
\* with missing fields included).
C14_SucceedsOrTypedFailure ==
    pc = "done" => outcome.kind \in {"returned"} \cup TypedKinds

\* C15: inspectVolume answered with status 404 resolves to {found: false,
\* error_message: 'Volume not found'} without throwing; answered with any
\* other non-2xx status it throws the QuiltApiError of inspectVolume.
C15_InspectVolumeNotFound ==
    (/\ pc = "done"
     /\ op = "inspectVolume"
     /\ responses[Len(responses)].kind = "response"
     /\ ~(responses[Len(responses)].status \in 200..299))
    => IF responses[Len(responses)].status = 404
       THEN /\ outcome.kind = "returned"
            /\ Get(outcome.value, "found") = Bool(FALSE)
            /\ Get(outcome.value, "error_message") = Str("Volume not found")
       ELSE /\ outcome.kind = "QuiltApiError"
            /\ outcome.method = "inspectVolume"
            /\ outcome.status = responses[Len(responses)].status

\* inspectVolume has been answered 404 and has returned
C15_Witness ==
    /\ pc = "done"
    /\ op = "inspectVolume"
    /\ responses = <<NotFound404>>
    /\ outcome.kind = "returned"

---------------------------------------------------------------------------
(* Properties of the transport *)

NonSuccess(resp) == resp.kind = "response" /\ ~(resp.status \in 200..299)

\* C16: the transport tells the three causes of failure apart by status: a
\* call that exceeds the timeout fails with 408, a connection failure fails
\* with 0, a non-2xx response fails with the status of the response.
C16_FailureStatus ==
    hpc = "settled" =>
        /\ delivered = Aborted => (settled.threw /\ settled.err.statusCode = 408)
        /\ delivered = Failed => (settled.threw /\ settled.err.statusCode = 0)
        /\ NonSuccess(delivered) =>
                (settled.threw /\ settled.err.statusCode = delivered.status)

\* a call has been aborted by its timer and has failed with 408
C16_Witness ==
    /\ hpc = "settled"
    /\ delivered = Aborted
    /\ settled.threw
    /\ settled.err.statusCode = 408

\* C17: the timeout bounds the whole call: a call whose timeout elapsed before
\* it completed (body received and parsed) fails with the timeout failure, so
\* no call returns a result after its timeout has elapsed.
C17_TimeoutBoundsCall ==
    (hpc = "settled" /\ elapsed) => (settled.threw /\ settled.err.statusCode = 408)

\* C18: the message of the failure of a non-2xx response is the service's
\* error string, with its details, when the body is JSON, and the raw text of
\* the body when the body is not valid JSON.
C18_FailureMessage ==
    (hpc = "settled" /\ NonSuccess(delivered)) =>
        /\ settled.threw
        /\ (delivered.format = "json" /\ Truthy(Get(delivered.data, "error"))) =>
                /\ settled.err.arg = Get(delivered.data, "error")
                /\ settled.err.details = Get(delivered.data, "details")
        /\ delivered.format = "text" => settled.err.arg = delivered.data

\* a credential is given when it is a non-empty string
GivenCredential(key) == Truthy(Get(options, key))

\* C20: every request carries the bearer credential the client was
\* constructed with: apiKey when both apiKey and token are given, token
\* otherwise; with neither, the request is sent without an Authorization
\* header.
C20_BearerCredential ==
    hpc \in {"fetching", "reading", "settled"} =>
        IF GivenCredential("apiKey")
        THEN Get(outbound.headers, "Authorization") = Bearer(Get(options, "apiKey"))
        ELSE IF GivenCredential("token")
        THEN Get(outbound.headers, "Authorization") = Bearer(Get(options, "token"))
        ELSE "Authorization" \notin Keys(outbound.headers)

\* a client constructed with both credentials has sent a request
C20_Witness ==
    /\ hpc = "fetching"
    /\ GivenCredential("apiKey")
    /\ GivenCredential("token")
    /\ Get(options, "apiKey") # Get(options, "token")
    /\ Get(outbound.headers, "Authorization") = Bearer(Get(options, "apiKey"))

\* a client constructed without credentials has sent a request and has its answer
C20_WitnessNone ==
    /\ hpc = "settled"
    /\ ~GivenCredential("apiKey")
    /\ ~GivenCredential("token")
    /\ ~settled.threw

---------------------------------------------------------------------------
(* Properties of concurrent callers *)

\* C19: operations that identify a container by name each send their own
\* lookup, whatever other operations are in flight or have completed: every
\* call by name is followed at once by a lookup request of its own caller,
\* and nothing is answered from an earlier lookup.
C19_OwnLookup ==
    \A i \in 1..Len(wire) :
        (wire[i].kind = "call" /\ wire[i].byName) =>
            /\ i < Len(wire)
            /\ wire[i + 1].kind = "request"
            /\ wire[i + 1].caller = wire[i].caller
            /\ IsLookup(wire[i + 1].req)

\* caller 1 has resolved the name and waits for its primary request while
\* caller 2, given the same name, waits for a lookup of its own
C19_Witness ==
    /\ calls[1].pc = "primary"
    /\ Len(calls[1].requests) = 2
    /\ calls[2].pc = "lookup"
    /\ calls[2].requests[1] = calls[1].requests[1]
    /\ wire[Len(wire)] = Sent(2, calls[2].requests[1])

---------------------------------------------------------------------------
(* Further properties of the operations and of the normalizer *)

StopSent ==
    /\ op = "stop"
    /\ requests # <<>>
    /\ requests[Len(requests)].path.route = "/containers/${containerId}/stop"

\* C22: the request stop sends carries the grace period: timeout_seconds is
\* the caller's timeout, in whichever spelling it was given, or 10 when the
\* caller gave none.
C22_StopTransmitsTimeout ==
    StopSent =>
        LET req == requests[Len(requests)]
            grace == Given({"timeout", "timeoutSeconds", "timeout_seconds"}, Num(10))
        IN \/ Get(req.body, "timeout_seconds") = grace
           \/ \E i \in 1..Len(req.query) :
                req.query[i].name = "timeout_seconds" /\ req.query[i].val = grace

\* the last entry of the input mapping whose key has the canonical key c
LastWith(c) ==
    CHOOSE i \in 1..Len(input.e) :
        /\ Canonical(input.e[i].k) = c
        /\ \A j \in 1..Len(input.e) : Canonical(input.e[j].k) = c => j <= i

\* C24: when two keys of the input mapping have the same canonical key, the
\* output has that canonical key once, with the (normalized) value of the one
\* of them that comes last in the mapping's order.
C24_LastWriteWins ==
    phase # "input" =>
        \A i, j \in 1..Len(input.e) :
            (i # j /\ Canonical(input.e[i].k) = Canonical(input.e[j].k)) =>
                LET c == Canonical(input.e[i].k) IN
                /\ Cardinality({n \in 1..Len(once.e) : once.e[n].k = c}) = 1
                /\ Get(once, c) = normalizeValue(input.e[LastWith(c)].v)

\* an alias and its canonical key, with different values, have been normalized
C24_Witness ==
    /\ phase = "once"
    /\ Len(input.e) = 2
    /\ input.e[1].k = "container_id" /\ input.e[2].k = "id"
    /\ input.e[1].v # input.e[2].v
    /\ once = Obj(<<Entry("container_id", input.e[2].v)>>)

Lookups == {i \in 1..Len(requests) : IsLookup(requests[i])}

\* C25: within one operation the requests are strictly sequential: at most
\* one request is in flight, the lookup is sent at most once and only when the
\* caller supplied no container id, and the primary request is sent only after
\* the response to the lookup has been received.
C25_Sequential ==
    /\ Len(requests) - Len(responses) \in {0, 1}
    /\ Cardinality(Lookups) <= 1
    /\ Lookups # {} => (Lookups = {1} /\ Keys(params) \cap IdSpellings = {})
    /\ \A i \in 1..Len(requests) :
        (~IsLookup(requests[i]) /\ Lookups # {}) =>
            (i = 2 /\ Len(responses) >= 1 /\ ~request(requests[1].method,
                            requests[1].path, responses[1]).threw)

\* the lookup has been answered and the primary request is in flight
C25_Witness ==
    /\ pc = "primary"
    /\ Len(requests) = 2
    /\ IsLookup(requests[1])
    /\ responses = <<LookupFound>>

NetworkSent ==
    /\ op = "setContainerNetwork"
    /\ requests # <<>>

\* the network configuration the caller passed, in canonical spelling
GivenConfig == normalize(Given({"networkConfig", "network_config"}, Obj(<<>>)))

DataMaps(o) ==
    CASE o = "create" -> {"environment"}
      [] o = "createVolume" -> {"labels", "options"}
      [] OTHER -> {}

\* C30: the maps of caller data (the environment of create, the labels and
\* options of createVolume) are transmitted with exactly the keys and values
\* the caller gave, also when a key is a string the alias table knows.
C30_DataMapsVerbatim ==
    (op \in {"create", "createVolume"} /\ pc = "primary") =>
        \A i \in 1..Len(params.e) :
            \A f \in Spellings(params.e[i].k) \cap DataMaps(op) :
                Get(requests[1].body, f) = params.e[i].v

\* the cleanup request is on the wire
CleanupSent ==
    op \in {"forceCleanupContainer", "comprehensiveNetworkCleanup"}
    /\ pc = "primary" /\ Len(requests) = 1

\* the flags each cleanup operation transmits, with their documented defaults
CleanupFlags(o) ==
    IF o = "forceCleanupContainer"
    THEN << Entry("confirm", Bool(TRUE)), Entry("remove_volumes", Bool(FALSE)) >>
    ELSE << Entry("dry_run", Bool(FALSE)) >>

\* C27: forceCleanupContainer and comprehensiveNetworkCleanup send the value
\* the caller gave for confirm, remove_volumes and dry_run, true or false
\* alike, and send the default only for a flag the caller did not give.
C27_ExplicitFlagsSent ==
    CleanupSent =>
        \A i \in 1..Len(CleanupFlags(op)) :
            LET flag == CleanupFlags(op)[i] IN
            Get(requests[1].body, flag.k) =
                IF Get(params, flag.k).t = "undefined" THEN flag.v ELSE Get(params, flag.k)

---------------------------------------------------------------------------
(* Properties of Quilt.connect *)

\* the probe was answered with a 2xx status
ProbeSucceeded ==
    delivered.kind = "response" /\ delivered.status >= 200 /\ delivered.status <= 299

\* C21: Quilt.connect returns the client only once the health probe has
\* succeeded: before the probe settles nothing is returned, a probe answered
\* with a 2xx status returns the constructed client, and a probe that failed
\* (non-2xx status, timeout, connection failure) throws a QuiltConnectionError
\* that carries the base address the client was constructed with, and
\* returns no client.
C21_ConnectProbes ==
    /\ cpc \in {"idle", "probing"} => connected.kind = "none"
    /\ cpc = "done" =>
         IF ProbeSucceeded
         THEN connected.kind = "returned" /\ connected.client = client
         ELSE /\ connected.kind = "QuiltConnectionError"
              /\ connected.apiBaseUrl = Get(client, "apiBaseUrl")
              /\ connected.apiBaseUrl.t = "str"
              /\ connected.client = Undefined

C21_Witness ==
    /\ cpc = "done"
    /\ delivered = Aborted
    /\ connected.kind = "QuiltConnectionError"
    /\ connected.apiBaseUrl = Str("http://env")

\* a variable of the environment, an option or a field of the file counts
\* as given when it holds a non-empty value
Set(v) == v.t # "undefined" /\ v # Str("")

\* the value of a field of the config file; a file that is missing, cannot
\* be read or does not parse has no fields
FileField(key) ==
    IF file.exists /\ file.readable /\ ~JSONparse(file.text).threw
    THEN Opt(JSONparse(file.text).val, key)
    ELSE Undefined

\* the first of the values that is given, else the last
RECURSIVE FirstSet(_)
FirstSet(vals) ==
    IF Len(vals) = 1 \/ Set(Head(vals)) THEN Head(vals) ELSE FirstSet(Tail(vals))

NoCredentialGiven == ~Set(Opt(given, "token")) /\ ~Set(Opt(given, "apiKey"))

\* C28: Quilt.connect called without token and apiKey constructs its client,
\* whatever the state of the config file, with the credential taken from
\* QUILT_API_KEY if that is set (to a non-empty value), else from the file's
\* api_key, and the base address taken from the apiBaseUrl option, else
\* QUILT_API_BASE_URL, else the file's api_base_url, else
\* http://localhost:8080.
C28_ConfigPrecedence ==
    (cpc # "idle" /\ NoCredentialGiven) =>
        /\ client.t = "map"
        /\ Get(client, "token") =
             FirstSet(<< Get(env, "QUILT_API_KEY"), FileField("api_key") >>)
        /\ Get(client, "apiBaseUrl") =
             FirstSet(<< Opt(given, "apiBaseUrl"), Get(env, "QUILT_API_BASE_URL"),
                         FileField("api_base_url"), Str("http://localhost:8080") >>)

C28_Witness ==
    /\ cpc = "probing"
    /\ given = Undefined
    /\ file = FileWith("{api_key")
    /\ Get(env, "QUILT_API_KEY") = Str("env-key")
    /\ ~Set(Get(env, "QUILT_API_BASE_URL"))
    /\ Get(client, "token") = Str("env-key")
    /\ Get(client, "apiBaseUrl") = Str("http://localhost:8080")

---------------------------------------------------------------------------
(* Frame of the operations *)

---------------------------------------------------------------------------
(* Properties of the CLI *)

\* the lines error() printed
ErrorLines == SelectSeq(stderr, LAMBDA line : line.red)

\* C23: a run of the CLI that met a failure (missing argument, unknown
\* command, connection failure, SDK call throwing, invocation or command
\* reported as unsuccessful) exits with a non-zero status after printing
\* exactly one error line.
C23_FailureExitsNonZero ==
    (cliPc = "exited" /\ failure # "none") =>
        exitStatus # 0 /\ Len(ErrorLines) = 1

=============================================================================
